---------------------------- MODULE Spec2Model ----------------------------
(***************************************************************************)
(* Model of the comment-driven analysis pipeline of minos-backend:         *)
(*   src/app/api/analyze/comments/route.ts  (withRetry, POST)              *)
(*   src/lib/figma.ts                       (getFileComments,              *)
(*                                           postCommentReply)             *)
(*   src/lib/config.ts                      (AGENT_CONFIG)                 *)
(*                                                                         *)
(* A JavaScript string is a sequence of one-character strings, so that     *)
(* toLowerCase and String.includes are computed, not assumed.  A value     *)
(* that is absent (undefined) or null is the tuple Undefined or Null,      *)
(* which is no string of characters.                                       *)
(***************************************************************************)
EXTENDS Integers, Sequences, FiniteSets, TLC

(***************************************************************************)
(* Bounds of the model.                                                    *)
(***************************************************************************)
\* Comments in the file's thread before the first invocation.
MaxComments == 2
\* Invocations of the analyze batch, one after the other, on the file.
MaxRuns == 2
\* Largest attempt budget withRetry is called with in SpecRetry.
MaxAttempts == 3
\* Comments in a collection handed to the Mention Scanner in SpecScan.
MaxScanLen == 2

(***************************************************************************)
(* Strings.                                                                *)
(***************************************************************************)
Undefined == <<"undefined">>

Null == <<"null">>

LowerCaseLetters == <<"a","b","c","d","e","f","g","h","i","j","k","l","m","n","o","p","q","r","s","t","u","v","w","x","y","z">>

UpperCaseLetters == <<"A","B","C","D","E","F","G","H","I","J","K","L","M","N","O","P","Q","R","S","T","U","V","W","X","Y","Z">>

\* String.prototype.toLowerCase on one character.
LowerChar(c) ==
  IF \E k \in 1..Len(UpperCaseLetters) : UpperCaseLetters[k] = c
  THEN LowerCaseLetters[CHOOSE k \in 1..Len(UpperCaseLetters) : UpperCaseLetters[k] = c]
  ELSE c

\* String.prototype.toLowerCase.
ToLowerCase(s) == [k \in 1..Len(s) |-> LowerChar(s[k])]

\* String.prototype.includes: pattern occurs in s as a substring.
Includes(s, pattern) ==
  \E start \in 0..(Len(s) - Len(pattern)) :
    \A k \in 1..Len(pattern) : s[start + k] = pattern[k]

\* A JavaScript value used as a condition: undefined, null and '' are falsy.
Truthy(v) == v # Undefined /\ v # Null /\ v # <<>>

\* a || b
OrElse(a, b) == IF Truthy(a) THEN a ELSE b

(***************************************************************************)
(* Configuration (src/lib/config.ts) and identities.                       *)
(***************************************************************************)
\* AGENT_CONFIG.mentionPatterns with AGENT_MENTION_PATTERNS unset:
\* '@heuristicsagent,@heuristics agent,heuristics agent', split, trimmed,
\* lower-cased.
mentionPatterns ==
  << <<"@","h","e","u","r","i","s","t","i","c","s","a","g","e","n","t">>,
     <<"@","h","e","u","r","i","s","t","i","c","s"," ","a","g","e","n","t">>,
     <<"h","e","u","r","i","s","t","i","c","s"," ","a","g","e","n","t">> >>

\* process.env.BOT_USER_ID, the Figma user id of the bot account.
botFigmaUserId == "bot"

\* Figma user ids of comment authors.
UserIds == {"bot", "u1"}

(***************************************************************************)
(* Texts the model draws from.                                             *)
(***************************************************************************)
\* 'Hi @HeuristicsAgent'
MsgMention == <<"H","i"," ","@","H","e","u","r","i","s","t","i","c","s","A","g","e","n","t">>

\* 'Looks fine'
MsgPlain == <<"L","o","o","k","s"," ","f","i","n","e">>

\* Text returned by the generative model; it may itself name the agent.
\* '@HeuristicsAgent: more contrast'
AnalysisText == <<"@","H","e","u","r","i","s","t","i","c","s","A","g","e","n","t",":"," ","m","o","r","e"," ","c","o","n","t","r","a","s","t">>

\* Messages of the errors analyzeDesign throws (gemini.ts:74 wraps every
\* failure as `Gemini API error: ...`).
LLMErrorMessages ==
  { <<"G","e","m","i","n","i"," ","A","P","I"," ","e","r","r","o","r",":"," ","4","2","9">>,
    <<"G","e","m","i","n","i"," ","A","P","I"," ","e","r","r","o","r",":"," ","5","0","3">> }

\* LLM_CONFIG as getLLMProvider sees it: the gemini provider with an API
\* key, no API key, or a provider that is not implemented.
LLMConfigs == {"gemini", "nokey", "openai"}

\* Message of the error getLLMProvider throws for a configuration it rejects.
\* 'LLM configuration invalid: LLM_API_KEY not configured',
\* 'OpenAI provider not yet implemented'
getLLMProviderError(config) ==
  IF config = "nokey"
  THEN <<"L","L","M"," ","c","o","n","f","i","g","u","r","a","t","i","o","n"," ","i","n","v","a","l","i","d",":"," ","L","L","M","_","A","P","I","_","K","E","Y"," ","n","o","t"," ","c","o","n","f","i","g","u","r","e","d">>
  ELSE <<"O","p","e","n","A","I"," ","p","r","o","v","i","d","e","r"," ","n","o","t"," ","y","e","t"," ","i","m","p","l","e","m","e","n","t","e","d">>

\* Message of the error getFileComments throws (figma.ts:75).
FetchErrorMessage == <<"F","a","i","l","e","d"," ","t","o"," ","f","e","t","c","h"," ","c","o","m","m","e","n","t","s",":"," ","5","0","0">>

\* Messages of the errors postCommentReply throws: res not ok (figma.ts:97),
\* or res.json() rejecting after the reply was created (figma.ts:100).
PostRejectedMessage == <<"F","a","i","l","e","d"," ","t","o"," ","p","o","s","t"," ","c","o","m","m","e","n","t",":"," ","4","0","3">>

PostUnreadableMessage == <<"U","n","e","x","p","e","c","t","e","d"," ","e","n","d"," ","o","f"," ","J","S","O","N"," ","i","n","p","u","t">>

\* route.ts:175, the text before and after ${llmError.message}; the leading
\* emoji is the one character "<wave>".
ApologyPrefix == <<"<wave>">> \o <<" ","I","'","m"," ","h","a","v","i","n","g"," ","t","r","o","u","b","l","e"," ","a","n","a","l","y","z","i","n","g"," ","t","h","i","s"," ","r","i","g","h","t"," ","n","o","w"," ","(","E","r","r","o","r",":"," ">>

ApologySuffix == <<")","."," ","P","l","e","a","s","e"," ","t","r","y"," ","a","g","a","i","n"," ","l","a","t","e","r",".">>

(***************************************************************************)
(* Mention Scanner: the callback of comments.filter, route.ts:96-140.      *)
(***************************************************************************)
\* route.ts:105 without toLowerCase.
messageTextAsWritten(comment) ==
  OrElse(OrElse(OrElse(comment.message, comment.text), comment.content), <<>>)

\* route.ts:105
messageText(comment) ==
  ToLowerCase(OrElse(OrElse(OrElse(comment.message, comment.text), comment.content), <<>>))

\* route.ts:112-118
hasMention(text) ==
  \E p \in 1..Len(mentionPatterns) : Includes(text, mentionPatterns[p])

\* route.ts:124-126 looking for a reply of the comment's author, not the bot.
hasReplyByAuthor(comment, comments) ==
  \E k \in 1..Len(comments) :
    comments[k].parent_id = comment.id /\ comments[k].user = comment.user

\* route.ts:124-126 with a reply that opens like the apology of route.ts:175
\* not taken for an answer.
hasAnalysisReply(comment, comments) ==
  \E k \in 1..Len(comments) :
    /\ comments[k].parent_id = comment.id
    /\ comments[k].user = botFigmaUserId
    /\ ~ /\ Len(comments[k].message) >= Len(ApologyPrefix)
         /\ SubSeq(comments[k].message, 1, Len(ApologyPrefix)) = ApologyPrefix

\* route.ts:124-126
hasReply(comment, comments) ==
  \E k \in 1..Len(comments) :
    comments[k].parent_id = comment.id /\ comments[k].user = botFigmaUserId

\* route.ts:96-140 without the resolved check of route.ts:98-101.
isAgentMentionResolvedToo(comment, comments) ==
  IF ~Truthy(messageText(comment)) THEN FALSE
  ELSE IF ~hasMention(messageText(comment)) THEN FALSE
  ELSE IF hasReply(comment, comments) THEN FALSE
  ELSE IF comment.user = botFigmaUserId THEN FALSE
  ELSE TRUE

\* route.ts:96-140 without the already-replied check of route.ts:124-131.
isAgentMentionNoDedup(comment, comments) ==
  IF Truthy(comment.resolved_at) THEN FALSE
  ELSE IF ~Truthy(messageText(comment)) THEN FALSE
  ELSE IF ~hasMention(messageText(comment)) THEN FALSE
  ELSE IF comment.user = botFigmaUserId THEN FALSE
  ELSE TRUE

\* route.ts:96-140 without the self-authorship check of route.ts:134-137.
isAgentMentionSelfToo(comment, comments) ==
  IF Truthy(comment.resolved_at) THEN FALSE
  ELSE IF ~Truthy(messageText(comment)) THEN FALSE
  ELSE IF ~hasMention(messageText(comment)) THEN FALSE
  ELSE IF hasReply(comment, comments) THEN FALSE
  ELSE TRUE

\* route.ts:96-140 without the mention check of route.ts:112-121.
isAgentMentionAnyText(comment, comments) ==
  IF Truthy(comment.resolved_at) THEN FALSE
  ELSE IF ~Truthy(messageText(comment)) THEN FALSE
  ELSE IF hasReply(comment, comments) THEN FALSE
  ELSE IF comment.user = botFigmaUserId THEN FALSE
  ELSE TRUE

\* route.ts:96-140, the filter callback with its early returns in order.
isAgentMention(comment, comments) ==
  IF Truthy(comment.resolved_at) THEN FALSE
  ELSE IF ~Truthy(messageText(comment)) THEN FALSE
  ELSE IF ~hasMention(messageText(comment)) THEN FALSE
  ELSE IF hasReply(comment, comments) THEN FALSE
  ELSE IF comment.user = botFigmaUserId THEN FALSE
  ELSE TRUE

\* route.ts:96, comments.filter(...)
filterMentions(comments) ==
  SelectSeq(comments, LAMBDA c : isAgentMention(c, comments))

(***************************************************************************)
(* State.                                                                  *)
(***************************************************************************)
VARIABLES
  thread,         \* the file's comments as Figma holds them, in list order
  created,        \* bot replies the invocations created so far: parent ids
  run,            \* invocations started so far
  pc,             \* where the current invocation of POST stands
  rt,             \* the frame of the withRetry call in progress
  commentsData,   \* route.ts:84
  agentMentions,  \* route.ts:96
  idx,            \* position of the for loop of route.ts:148 in agentMentions
  designContext,  \* route.ts:153
  replyMessage,   \* route.ts:156
  analysisStatus, \* route.ts:157
  analysisError,  \* route.ts:158
  replies,        \* route.ts:145
  skipped,        \* route.ts:146
  audits,         \* inserts into analysis_requests attempted by this invocation
  posts,          \* calls of postCommentReply made by this invocation
  response,       \* the response the invocation returned
  prev,           \* the invocation before this one: whether it returned a
                  \* summary, the comments whose reply Figma refused, and
                  \* the comments it attempted an audit write for
  llmConfig,      \* LLM_CONFIG of the deployment: provider and API key
  calls,          \* calls this invocation made to Figma and to the LLM
                  \* service, each with the credential it carried
  ex,             \* the frame of the extractDesignContext call in progress
  inv,            \* invocations of POST that overlap on the file: the locals
                  \* of each
  auth            \* the sign-in handshake: the rows of auth_codes and users,
                  \* and what the poll and analyze endpoints answered

vars == << thread, created, run, pc, rt, commentsData, agentMentions, idx,
           designContext, replyMessage, analysisStatus, analysisError,
           replies, skipped, audits, posts, response, prev, llmConfig, calls, ex,
           inv, auth >>

\* The locals of one comment's iteration.
iterVars == << designContext, replyMessage, analysisStatus, analysisError >>

\* What one invocation accumulates.
batchVars == << commentsData, agentMentions, idx, replies, skipped, audits, posts, response >>

\* Everything of POST; withRetry touches none of it.
postVars == << thread, created, run, pc, commentsData, agentMentions, idx,
               designContext, replyMessage, analysisStatus, analysisError,
               replies, skipped, audits, posts, response, prev, llmConfig, ex, inv, auth >>

\* Everything but the frame of extractDesignContext.
callerVars == << thread, created, run, pc, rt, commentsData, agentMentions, idx,
                 designContext, replyMessage, analysisStatus, analysisError,
                 replies, skipped, audits, posts, response, prev, llmConfig, calls,
                 inv, auth >>

\* No invocations overlap.
NoInvocations == << >>

\* No sign-in is followed.
NoAuth == << >>

(***************************************************************************)
(* Geometry of the crop, designParser.ts:44-50, 130-207.  A length is an   *)
(* integer number of quarter pixels, so that the products with the scale   *)
(* 0.5 and the halves of designParser.ts:178-183 are exact; Math.round     *)
(* turns a length into whole pixels.                                       *)
(***************************************************************************)
\* Quarter pixels in a pixel.
Unit == 4

\* The scales 0.5, 1 and 2, in quarters.
ScaleHalf == 2

ScaleOne == 4

ScaleTwo == 8

\* designParser.ts:7, in pixels.
MIN_VIEWPORT_SIZE == 800

\* Math.max and Math.min of two numbers.
Max(a, b) == IF a >= b THEN a ELSE b

Min(a, b) == IF a <= b THEN a ELSE b

\* Math.round of a length, in pixels: the nearest integer, a half going up.
Round(q) == (q + 2) \div 4

\* designParser.ts:45-50, for a node of width x height pixels.
getSafeScale(width, height) ==
  IF Max(width, height) > 4000 THEN ScaleHalf
  ELSE IF Max(width, height) > 2000 THEN ScaleOne
  ELSE ScaleTwo

\* designParser.ts:100-107 without the cap of designParser.ts:105-107.
SelectedScaleUncapped(node) == getSafeScale(node.width, node.height)

\* designParser.ts:100-107: the scale of the first render fetch.
SelectedScale(node) ==
  IF node.type \in {<<"C","A","N","V","A","S">>, <<"D","O","C","U","M","E","N","T">>}
  THEN Min(getSafeScale(node.width, node.height), ScaleHalf)
  ELSE getSafeScale(node.width, node.height)

\* designParser.ts:140: the comment marks a region, not a point.
IsRegion(meta) == meta.region_width # 0 /\ meta.region_height # 0

\* designParser.ts:147 with the corner of the comment ignored.
PinCornerDefault(meta) == "bottom-right"

\* designParser.ts:147 with 'top-left' for a comment without a corner.
PinCornerDefaultTopLeft(meta) ==
  IF meta.comment_pin_corner = "" THEN "top-left" ELSE meta.comment_pin_corner

\* designParser.ts:147
PinCorner(meta) ==
  IF meta.comment_pin_corner = "" THEN "bottom-right" ELSE meta.comment_pin_corner

\* designParser.ts:134-166: the region of a region comment in the scaled
\* image, in quarters.
RegionRect(meta, scale) ==
  LET pinX == meta.node_offset.x * scale
      pinY == meta.node_offset.y * scale
      rWidth == meta.region_width * scale
      rHeight == meta.region_height * scale
      pinCorner == PinCorner(meta)
  IN  [ left |-> IF pinCorner \in {"bottom-right", "top-right"} THEN pinX - rWidth ELSE pinX,
        top |-> IF pinCorner \in {"bottom-right", "bottom-left"} THEN pinY - rHeight ELSE pinY,
        width |-> rWidth, height |-> rHeight ]

\* designParser.ts:181-185, 191-195: the square window of MIN_VIEWPORT_SIZE
\* around a centre, in pixels.
ViewportAround(centerX, centerY) ==
  [ x |-> Round(centerX - (MIN_VIEWPORT_SIZE * Unit) \div 2),
    y |-> Round(centerY - (MIN_VIEWPORT_SIZE * Unit) \div 2),
    width |-> MIN_VIEWPORT_SIZE, height |-> MIN_VIEWPORT_SIZE ]

\* designParser.ts:170 with > for >=.
LargeEnoughStrictly(region) ==
  \/ region.width > MIN_VIEWPORT_SIZE * Unit
  \/ region.height > MIN_VIEWPORT_SIZE * Unit

\* designParser.ts:170: the region is used as it is.
LargeEnough(region) ==
  \/ region.width >= MIN_VIEWPORT_SIZE * Unit
  \/ region.height >= MIN_VIEWPORT_SIZE * Unit

\* designParser.ts:168-186 with every region cropped tight.
RegionCropTight(region) ==
  [ x |-> Round(region.left), y |-> Round(region.top),
    width |-> Round(region.width), height |-> Round(region.height) ]

\* designParser.ts:168-186: the crop of a region, in pixels, before the clamp.
RegionCrop(region) ==
  IF LargeEnough(region)
  THEN [ x |-> Round(region.left), y |-> Round(region.top),
         width |-> Round(region.width), height |-> Round(region.height) ]
  ELSE ViewportAround(region.left + region.width \div 2,
                      region.top + region.height \div 2)

\* designParser.ts:133-196: the crop before the clamp, in pixels.
PreClamp(meta, scale) ==
  IF IsRegion(meta)
  THEN RegionCrop(RegionRect(meta, scale))
  ELSE ViewportAround(meta.node_offset.x * scale, meta.node_offset.y * scale)

\* designParser.ts:199-204 without the Math.max(0, ...) of the origin.
ClampSizeOnly(crop, imgW, imgH) ==
  [ x |-> crop.x, y |-> crop.y,
    width |-> Min(crop.width, imgW - crop.x),
    height |-> Min(crop.height, imgH - crop.y) ]

\* designParser.ts:199-204 with metadata.height for metadata.width and the
\* other way round in the two Math.min.
ClampAgainstOtherSide(crop, imgW, imgH) ==
  LET cropX == Max(0, crop.x)
      cropY == Max(0, crop.y)
  IN  [ x |-> cropX, y |-> cropY,
        width |-> Min(crop.width, imgH - cropX),
        height |-> Min(crop.height, imgW - cropY) ]

\* designParser.ts:199-204: the crop kept inside the image; the values
\* are whole pixels already, so the Math.round calls change nothing.
Clamp(crop, imgW, imgH) ==
  LET cropX == Max(0, crop.x)
      cropY == Max(0, crop.y)
  IN  [ x |-> cropX, y |-> cropY,
        width |-> Min(crop.width, imgW - cropX),
        height |-> Min(crop.height, imgH - cropY) ]

\* designParser.ts:207
ValidCrop(crop) == crop.width > 0 /\ crop.height > 0

(***************************************************************************)
(* Context Extractor: extractDesignContext, designParser.ts:53-270.        *)
(***************************************************************************)
\* '1:2', a node id; an image locator; the two encodings of an image.
NodeId == <<"1",":","2">>

ImageUrl == <<"h","t","t","p","s",":","/","/","s","3","/","i","m","g">>

CroppedJpeg == <<"c","r","o","p","p","e","d">>

FullJpeg == <<"f","u","l","l">>

NoNode == [absent |-> TRUE]

NoCrop == [absent |-> TRUE]

NoMetadata == [width |-> 0, height |-> 0]

NoProperties == [absent |-> TRUE]

\* designParser.ts:71, 268: the context {}.
EmptyContext ==
  [ nodeId |-> Undefined, nodeName |-> Undefined, nodeType |-> Undefined,
    nodeProperties |-> NoProperties, imageUrl |-> Undefined, imageBase64 |-> Undefined ]

\* No extractDesignContext call is in progress.
IdleEx ==
  [ st |-> "idle", meta |-> [absent |-> TRUE], accessToken |-> "none",
    node |-> NoNode, currentScale |-> 0, imageUrl |-> Undefined,
    metadata |-> NoMetadata, region |-> NoCrop, pre |-> NoCrop, crop |-> NoCrop,
    imageBase64 |-> Undefined, result |-> EmptyContext, fetches |-> <<>>, failed |-> <<>> ]

\* designParser.ts:258-265: the context returned after the image steps.
ReturnContext(frame) ==
  [ frame EXCEPT !.st = "returned",
      !.result = [ nodeId |-> frame.meta.node_id, nodeName |-> frame.node.name,
                   nodeType |-> frame.node.type,
                   nodeProperties |-> [width |-> frame.node.width, height |-> frame.node.height],
                   imageUrl |-> frame.imageUrl, imageBase64 |-> frame.imageBase64 ] ]

\* designParser.ts:266-269 with the error thrown on to the caller.
RethrowOuter(frame, step) ==
  [ frame EXCEPT !.st = "raised", !.failed = Append(@, step) ]

\* designParser.ts:266-269: the outer catch returns {}.
CatchOuter(frame, step) ==
  [ frame EXCEPT !.st = "returned", !.result = EmptyContext, !.failed = Append(@, step) ]

\* designParser.ts:234-238 without the test of designParser.ts:238: the
\* fallback runs whether or not there is an image locator.
CatchImageAlwaysFallsBack(frame, step) ==
  [ frame EXCEPT !.st = "fallback", !.failed = Append(@, step) ]

\* designParser.ts:234-238: the inner catch; without an image locator there
\* is nothing to fall back to.
CatchImage(frame, step) ==
  IF Truthy(frame.imageUrl)
  THEN [ frame EXCEPT !.st = "fallback", !.failed = Append(@, step) ]
  ELSE ReturnContext([ frame EXCEPT !.failed = Append(@, step) ])

\* One call to Figma, with its credential and, for a render, its scale.
Fetch(fn, token, scale) == [fn |-> fn, token |-> token, scale |-> scale]

\* designParser.ts:65-75 without the return of designParser.ts:69-72: the
\* node is asked for even when the comment names none.
ExtractCallAlwaysFetches(meta, accessToken) ==
  /\ ex.st = "idle"
  /\ ex' = [ IdleEx EXCEPT !.st = "nodeInfo", !.meta = meta,
                           !.accessToken = accessToken,
                           !.fetches = << Fetch("getNodeInfo", accessToken, 0) >> ]
  /\ UNCHANGED callerVars

\* designParser.ts:65-75: the call; without client_meta.node_id it returns
\* {}, else it asks for the node.
ExtractCall(meta, accessToken) ==
  /\ ex.st = "idle"
  /\ ex' = IF ~Truthy(meta.node_id)
           THEN [ IdleEx EXCEPT !.st = "returned", !.meta = meta,
                                !.accessToken = accessToken ]
           ELSE [ IdleEx EXCEPT !.st = "nodeInfo", !.meta = meta,
                                !.accessToken = accessToken,
                                !.fetches = << Fetch("getNodeInfo", accessToken, 0) >> ]
  /\ UNCHANGED callerVars

\* The nodes getNodeInfo can return: frames of three sizes, a canvas and a
\* document.
Nodes ==
  { [name |-> <<"C","a","r","d">>, type |-> <<"F","R","A","M","E">>, width |-> 1200, height |-> 2000],
    [name |-> <<"F","l","o","w">>, type |-> <<"F","R","A","M","E">>, width |-> 2001, height |-> 4000],
    [name |-> <<"M","a","p">>, type |-> <<"F","R","A","M","E">>, width |-> 4001, height |-> 900],
    [name |-> <<"P","a","g","e">>, type |-> <<"C","A","N","V","A","S">>, width |-> 1200, height |-> 800],
    [name |-> <<"D","o","c">>, type |-> <<"D","O","C","U","M","E","N","T">>, width |-> 3000, height |-> 2400] }

\* designParser.ts:75-112: the node arrives, or none, or the fetch throws;
\* for a node the scale is chosen and the render is asked for.
ExNodeInfo ==
  /\ ex.st = "nodeInfo"
  /\ \/ ex' = CatchOuter(ex, "getNodeInfo")
     \/ ex' = [ ex EXCEPT !.st = "returned",
                          !.result = [EmptyContext EXCEPT !.nodeId = ex.meta.node_id] ]
     \/ \E node \in Nodes :
          ex' = [ ex EXCEPT !.st = "image", !.node = node,
                            !.currentScale = SelectedScale(node),
                            !.fetches = Append(@, Fetch("getNodeImage", ex.accessToken,
                                                       SelectedScale(node))) ]
  /\ UNCHANGED callerVars

\* designParser.ts:111-120 without the retry of designParser.ts:113-118.
ExNodeImageNoRetry ==
  /\ ex.st = "image"
  /\ \/ ex' = [ ex EXCEPT !.st = "download", !.imageUrl = ImageUrl ]
     \/ ex' = ReturnContext([ ex EXCEPT !.imageUrl = Null ])
     \/ ex' = CatchImage(ex, "getNodeImage")
  /\ UNCHANGED callerVars

\* designParser.ts:111-120: the first render fetch returns a locator or
\* none, or throws and is tried again at scale 0.5.
ExNodeImage ==
  /\ ex.st = "image"
  /\ \/ ex' = [ ex EXCEPT !.st = "download", !.imageUrl = ImageUrl ]
     \/ ex' = ReturnContext([ ex EXCEPT !.imageUrl = Null ])
     \/ ex' = [ ex EXCEPT !.st = "imageRetry", !.failed = Append(@, "getNodeImage"),
                          !.fetches = Append(@, Fetch("getNodeImage", ex.accessToken,
                                                     ScaleHalf)) ]
  /\ UNCHANGED callerVars

\* designParser.ts:113-120 without the assignment of designParser.ts:117:
\* currentScale stays the scale of the fetch that failed.
ExNodeImageRetryKeepsScale ==
  /\ ex.st = "imageRetry"
  /\ \/ ex' = [ ex EXCEPT !.st = "download", !.imageUrl = ImageUrl ]
     \/ ex' = ReturnContext([ ex EXCEPT !.imageUrl = Null ])
     \/ ex' = CatchImage(ex, "getNodeImage")
  /\ UNCHANGED callerVars

\* designParser.ts:113-120: the render fetch at scale 0.5.
ExNodeImageRetry ==
  /\ ex.st = "imageRetry"
  /\ \/ ex' = [ ex EXCEPT !.st = "download", !.imageUrl = ImageUrl,
                          !.currentScale = ScaleHalf ]
     \/ ex' = ReturnContext([ ex EXCEPT !.imageUrl = Null, !.currentScale = ScaleHalf ])
     \/ ex' = CatchImage(ex, "getNodeImage")
  /\ UNCHANGED callerVars

\* designParser.ts:122-123: the bitmap is downloaded.
ExDownload ==
  /\ ex.st = "download"
  /\ \/ ex' = [ ex EXCEPT !.st = "metadata" ]
     \/ ex' = CatchImage(ex, "download")
  /\ UNCHANGED callerVars

\* The pixel sizes sharp can report for the bitmap; 0 stands for a size it
\* does not report.
ImageSizes ==
  { [width |-> 0, height |-> 0], [width |-> 600, height |-> 500],
    [width |-> 1500, height |-> 1000], [width |-> 2400, height |-> 4000] }

\* designParser.ts:126-207, 227-232: the size of the bitmap is read and the
\* crop is computed; without size or offset, or with an empty crop, the
\* step throws.
ExMetadata ==
  /\ ex.st = "metadata"
  /\ \/ ex' = CatchImage(ex, "metadata")
     \/ \E metadata \in ImageSizes :
          IF metadata.width # 0 /\ metadata.height # 0 /\ ex.meta.hasOffset
          THEN LET pre == PreClamp(ex.meta, ex.currentScale)
                   crop == Clamp(pre, metadata.width, metadata.height)
                   frame == [ ex EXCEPT !.metadata = metadata, !.pre = pre, !.crop = crop,
                                !.region = IF IsRegion(ex.meta)
                                           THEN RegionRect(ex.meta, ex.currentScale)
                                           ELSE NoCrop ]
               IN  ex' = IF ValidCrop(crop)
                         THEN [ frame EXCEPT !.st = "crop" ]
                         ELSE CatchImage(frame, "geometry")
          ELSE ex' = CatchImage([ ex EXCEPT !.metadata = metadata ], "geometry")
  /\ UNCHANGED callerVars

\* designParser.ts:210-226: the crop is extracted, resized and encoded.
ExCrop ==
  /\ ex.st = "crop"
  /\ \/ ex' = ReturnContext([ ex EXCEPT !.imageBase64 = CroppedJpeg ])
     \/ ex' = CatchImage(ex, "crop")
  /\ UNCHANGED callerVars

\* designParser.ts:238-256 with the fallback left out.
ExFallbackNever ==
  /\ ex.st = "fallback"
  /\ ex' = ReturnContext(ex)
  /\ UNCHANGED callerVars

\* designParser.ts:238-256: the whole bitmap is downloaded again, resized
\* and encoded; when that throws, imageBase64 stays unset.
ExFallback ==
  /\ ex.st = "fallback"
  /\ \/ ex' = ReturnContext([ ex EXCEPT !.imageBase64 = FullJpeg ])
     \/ ex' = ReturnContext([ ex EXCEPT !.failed = Append(@, "fallback") ])
  /\ UNCHANGED callerVars

(***************************************************************************)
(* Retry Guard: withRetry, route.ts:10-22.                                 *)
(***************************************************************************)
NoError == [undefined |-> TRUE]

NoValue == [undefined |-> TRUE]

IdleFrame ==
  [ fn |-> "none", retries |-> 0, delay |-> 0, i |-> 0, lastError |-> NoError,
    st |-> "idle", value |-> NoValue, log |-> <<>>, slept |-> 0 ]

\* figma.ts:78: getFileComments returns the body of an ok response as it
\* parses; this one has no comments field.
BodyWithoutComments == [other |-> TRUE]

\* route.ts:92: the comments of the fetched body, or none.
commentsOrEmpty(data) == IF "comments" \in DOMAIN data THEN data.comments ELSE <<>>

\* What a call of fn can resolve to.  analyzeDesign resolves only when
\* getLLMProvider returns a provider.
FnValues(fn) ==
  CASE fn = "getFileComments" -> { [comments |-> thread], BodyWithoutComments }
    [] fn = "analyzeDesign" ->
         IF llmConfig = "gemini" THEN { [text |-> AnalysisText] } ELSE {}
    [] OTHER -> { [v |-> "a"], [v |-> "b"] }

\* What a call of fn can reject with.  analyzeDesign rejects with what
\* getLLMProvider throws, or else with what the provider throws.
FnErrors(fn) ==
  CASE fn = "getFileComments" -> { [message |-> FetchErrorMessage] }
    [] fn = "analyzeDesign" ->
         IF llmConfig = "gemini" THEN { [message |-> m] : m \in LLMErrorMessages }
         ELSE { [message |-> getLLMProviderError(llmConfig)] }
    [] OTHER -> { [message |-> <<"e","1">>], [message |-> <<"e","2">>] }

\* user.access_token of the row of the reading user (route.ts:54-58).
UserToken == "user-token"

\* The credential the reads of an invocation carry: user.access_token
\* (route.ts:86, 153).
ReadToken == UserToken

\* The call to Figma or to the LLM service behind one attempt of fn, with
\* its credential (route.ts:86, 163); getLLMProvider throwing leaves the
\* service uncalled.
FnCalls(fn) ==
  CASE fn = "getFileComments" -> { [fn |-> fn, token |-> ReadToken] }
    [] fn = "analyzeDesign" ->
         IF llmConfig = "gemini" THEN { [fn |-> fn, token |-> "LLM_API_KEY"] } ELSE {}
    [] OTHER -> {}

\* route.ts:11-12 and, when the loop body never runs, route.ts:21.
withRetry(fn, retries, delay) ==
  [ fn |-> fn, retries |-> retries, delay |-> delay, i |-> 0, lastError |-> NoError,
    st |-> IF 0 < retries THEN "calling" ELSE "thrown",
    value |-> NoValue, log |-> <<>>, slept |-> 0 ]

\* route.ts:16: the error kept from a failed attempt.
KeepFirstError(frame, e) == IF frame.i = 0 THEN e ELSE frame.lastError

CaughtError(frame, e) == e

\* route.ts:18 with the delay after every failed attempt, the last included.
SleepsAfterEveryFailure(frame) == TRUE

\* route.ts:18: whether a failed attempt is followed by the delay.
SleepsAfterFailure(frame) == frame.i < frame.retries - 1

\* route.ts:12 without the bound on i: attempts go on until one succeeds.
LoopContinuesUnbounded(frame) == TRUE

\* route.ts:12: the loop condition, after i++.
LoopContinues(frame) == frame.i + 1 < frame.retries

\* route.ts:14: fn resolves, withRetry returns its value.
RetryAttemptOk ==
  /\ rt.st = "calling"
  /\ \E v \in FnValues(rt.fn) :
       rt' = [rt EXCEPT !.st = "returned", !.value = v,
                        !.log = Append(@, [ok |-> TRUE, value |-> v])]
  /\ calls' = calls \cup FnCalls(rt.fn)
  /\ UNCHANGED postVars

\* route.ts:15-19 and, after the last attempt, route.ts:21.
RetryAttemptFail ==
  /\ rt.st = "calling"
  /\ \E e \in FnErrors(rt.fn) :
       LET caught == [rt EXCEPT !.lastError = CaughtError(rt, e),
                                !.log = Append(@, [ok |-> FALSE, error |-> e])]
       IN  rt' = IF SleepsAfterFailure(caught)
                 THEN [caught EXCEPT !.st = "sleeping"]
                 ELSE IF LoopContinues(caught)
                 THEN [caught EXCEPT !.i = @ + 1]
                 ELSE [caught EXCEPT !.i = @ + 1, !.st = "thrown"]
  /\ calls' = calls \cup FnCalls(rt.fn)
  /\ UNCHANGED postVars

\* route.ts:18: the delay has passed; i++ and the next attempt.
RetrySleep ==
  /\ rt.st = "sleeping"
  /\ rt' = IF LoopContinues(rt)
           THEN [rt EXCEPT !.i = @ + 1, !.slept = @ + 1, !.st = "calling"]
           ELSE [rt EXCEPT !.i = @ + 1, !.slept = @ + 1, !.st = "thrown"]
  /\ UNCHANGED calls
  /\ UNCHANGED postVars

(***************************************************************************)
(* POST, route.ts:24-251.                                                  *)
(***************************************************************************)
\* botUser.access_token (route.ts:72).
BotToken == "bot-token"

\* The Figma user a credential posts as.
TokenOwner(token) == IF token = BotToken THEN botFigmaUserId ELSE "u1"

\* What a request can carry: an Authorization header, a session token that
\* verifies, a fileKey in the body.
Requests == [authHeader : BOOLEAN, session : BOOLEAN, fileKey : BOOLEAN]

NoResponse == [status |-> 0, error |-> "none"]

NoContext == [nodeId |-> Undefined, imageBase64 |-> Undefined]

\* route.ts:24-58: a request arrives; the header, the session and the body
\* are checked and the user's row is asked for.
Invoke ==
  /\ pc \in {"idle", "done"}
  /\ run < MaxRuns
  /\ run' = run + 1
  /\ \E req \in Requests :
       IF ~req.authHeader
       THEN /\ response' = [status |-> 401, error |-> "Missing Authorization header"]
            /\ pc' = "done"
       ELSE IF ~req.session
       THEN /\ response' = [status |-> 401, error |-> "Unauthorized"]
            /\ pc' = "done"
       ELSE IF ~req.fileKey
       THEN /\ response' = [status |-> 400, error |-> "Missing fileKey"]
            /\ pc' = "done"
       ELSE /\ response' = NoResponse
            /\ pc' = "user"
  /\ rt' = IdleFrame
  /\ commentsData' = [comments |-> <<>>]
  /\ agentMentions' = <<>>
  /\ idx' = 0
  /\ replies' = <<>>
  /\ skipped' = <<>>
  /\ audits' = <<>>
  /\ posts' = <<>>
  /\ designContext' = NoContext
  /\ replyMessage' = Undefined
  /\ analysisStatus' = "none"
  /\ analysisError' = Null
  /\ prev' = [ summary |-> pc = "done" /\ response.status = 200,
                rejected |-> { posts[k].comment_id : k \in
                                 { j \in 1..Len(posts) : posts[j].outcome = "rejected" } },
                audited |-> { audits[k].record.comment_id : k \in 1..Len(audits) } ]
  /\ calls' = {}
  /\ UNCHANGED << thread, created, llmConfig, ex, inv, auth >>

\* route.ts:54-72: the user's row arrives; without a row or a token the
\* batch ends, as it does without BOT_USER_ID; else the bot is asked for.
UserLookup ==
  /\ pc = "user"
  /\ \E found \in BOOLEAN, botIdSet \in BOOLEAN :
       IF ~found
       THEN /\ response' = [status |-> 404, error |-> "User not found or not connected to Figma"]
            /\ pc' = "done"
       ELSE IF ~botIdSet
       THEN /\ response' = [status |-> 500, error |-> "Bot account not configured"]
            /\ pc' = "done"
       ELSE /\ UNCHANGED response
            /\ pc' = "bot"
  /\ UNCHANGED << thread, created, run, rt, commentsData, agentMentions, idx,
                  replies, skipped, audits, posts >>
  /\ UNCHANGED iterVars
  /\ UNCHANGED << prev, llmConfig, calls, ex, inv, auth >>

\* route.ts:72-86: the bot's row arrives; without it the batch ends (the
\* lookup throwing ends it at route.ts:247-250); else the comment fetch is
\* started under withRetry.
BotLookup ==
  /\ pc = "bot"
  /\ \E bot \in {"found", "missing", "throws"} :
       IF bot = "throws"
       THEN /\ response' = [status |-> 500, error |-> "Failed to fetch user"]
            /\ pc' = "done"
            /\ UNCHANGED rt
       ELSE IF bot = "missing"
       THEN /\ response' = [status |-> 500, error |-> "Bot account not authenticated"]
            /\ pc' = "done"
            /\ UNCHANGED rt
       ELSE /\ UNCHANGED response
            /\ pc' = "fetch"
            /\ rt' = withRetry("getFileComments", 3, 1000)
  /\ UNCHANGED << thread, created, run, commentsData, agentMentions, idx,
                  replies, skipped, audits, posts >>
  /\ UNCHANGED iterVars
  /\ UNCHANGED << prev, llmConfig, calls, ex, inv, auth >>

\* route.ts:236-245: the run summary.  It reads commentsData.comments.length
\* (route.ts:238): without that field the read throws a TypeError, which the
\* catch of route.ts:247-250 answers with its message and status 500.
Summary(data, mentions, sent, skips) ==
  IF "comments" \in DOMAIN data
  THEN [ status |-> 200, error |-> "none",
         totalComments |-> Len(data.comments), mentionsFound |-> Len(mentions),
         repliesSent |-> Len(sent), skipped |-> Len(skips) ]
  ELSE [ status |-> 500,
         error |-> "Cannot read properties of undefined (reading 'length')" ]

\* route.ts:87-90 with the failed fetch taken for an empty thread.
FetchThrownAsEmpty ==
  /\ pc = "fetch"
  /\ rt.st = "thrown"
  /\ response' = Summary([comments |-> <<>>], <<>>, <<>>, <<>>)
  /\ pc' = "done"
  /\ rt' = IdleFrame
  /\ UNCHANGED << thread, created, run, commentsData, agentMentions, idx,
                  replies, skipped, audits, posts >>
  /\ UNCHANGED iterVars
  /\ UNCHANGED << prev, llmConfig, calls, ex, inv, auth >>

\* route.ts:87-90: withRetry threw; the batch ends with one error response.
FetchThrown ==
  /\ pc = "fetch"
  /\ rt.st = "thrown"
  /\ response' = [status |-> 502, error |-> "Failed to fetch comments from Figma"]
  /\ pc' = "done"
  /\ rt' = IdleFrame
  /\ UNCHANGED << thread, created, run, commentsData, agentMentions, idx,
                  replies, skipped, audits, posts >>
  /\ UNCHANGED iterVars
  /\ UNCHANGED << prev, llmConfig, calls, ex, inv, auth >>

\* route.ts:86-148 with the comments that have an audit record of the
\* invocation before left out of agentMentions.
FetchReturnedSkipsAudited ==
  /\ pc = "fetch"
  /\ rt.st = "returned"
  /\ commentsData' = rt.value
  /\ agentMentions' = SelectSeq(filterMentions(commentsOrEmpty(rt.value)),
                                LAMBDA c : c.id \notin prev.audited)
  /\ rt' = IdleFrame
  /\ IF agentMentions' = <<>>
     THEN /\ pc' = "done"
          /\ idx' = 0
          /\ response' = Summary(rt.value, <<>>, <<>>, <<>>)
     ELSE /\ pc' = "context"
          /\ idx' = 1
          /\ UNCHANGED response
  /\ UNCHANGED << thread, created, run, replies, skipped, audits, posts >>
  /\ UNCHANGED iterVars
  /\ UNCHANGED << prev, llmConfig, calls, ex, inv, auth >>

\* route.ts:86-148: the comments arrived; the Mention Scanner runs and the
\* loop starts, or, with nothing to do, the summary is returned.
FetchReturned ==
  /\ pc = "fetch"
  /\ rt.st = "returned"
  /\ commentsData' = rt.value
  /\ agentMentions' = filterMentions(commentsOrEmpty(rt.value))
  /\ rt' = IdleFrame
  /\ IF agentMentions' = <<>>
     THEN /\ pc' = "done"
          /\ idx' = 0
          /\ response' = Summary(rt.value, <<>>, <<>>, <<>>)
     ELSE /\ pc' = "context"
          /\ idx' = 1
          /\ UNCHANGED response
  /\ UNCHANGED << thread, created, run, replies, skipped, audits, posts >>
  /\ UNCHANGED iterVars
  /\ UNCHANGED << prev, llmConfig, calls, ex, inv, auth >>

\* The contexts extractDesignContext returns (designParser.ts:71, 80, 258-265,
\* 268), as far as POST reads them: with or without a node id and an image.
DesignContexts ==
  { NoContext,
    [nodeId |-> <<"1",":","2">>, imageBase64 |-> <<"/","9","j">>] }

\* The calls to Figma behind a returned context (designParser.ts:75, 112),
\* made with the accessToken extractDesignContext was given.
ContextCalls(ctx, accessToken) ==
  IF ctx.nodeId = Undefined THEN {}
  ELSE { [fn |-> "getNodeInfo", token |-> accessToken],
         [fn |-> "getNodeImage", token |-> accessToken] }

\* route.ts:150-168: the context of the comment is extracted (it never
\* throws) and the analysis is started under withRetry.
ExtractContext ==
  /\ pc = "context"
  /\ \E ctx \in DesignContexts :
       /\ designContext' = ctx
       /\ calls' = calls \cup ContextCalls(ctx, ReadToken)
  /\ replyMessage' = Undefined
  /\ analysisStatus' = "success"
  /\ analysisError' = Null
  /\ rt' = withRetry("analyzeDesign", 3, 2000)
  /\ pc' = "analyze"
  /\ UNCHANGED << thread, created, run >>
  /\ UNCHANGED batchVars
  /\ UNCHANGED << prev, llmConfig, ex, inv, auth >>

\* route.ts:170: the analysis is the reply; the audit insert is next.
AnalysisReturned ==
  /\ pc = "analyze"
  /\ rt.st = "returned"
  /\ replyMessage' = rt.value.text
  /\ rt' = IdleFrame
  /\ pc' = "audit"
  /\ UNCHANGED << thread, created, run, designContext, analysisStatus, analysisError >>
  /\ UNCHANGED batchVars
  /\ UNCHANGED << prev, llmConfig, calls, ex, inv, auth >>

\* route.ts:175 without ${llmError.message}.
ApologyWithoutDetail(detail) == ApologyPrefix \o ApologySuffix

\* route.ts:175: the apology that stands in for the analysis.
ApologyMessage(detail) == ApologyPrefix \o detail \o ApologySuffix

\* route.ts:172-178: withRetry threw; the apology is the reply.
AnalysisThrown ==
  /\ pc = "analyze"
  /\ rt.st = "thrown"
  /\ replyMessage' = ApologyMessage(rt.lastError.message)
  /\ analysisStatus' = "error"
  /\ analysisError' = rt.lastError.message
  /\ rt' = IdleFrame
  /\ pc' = "audit"
  /\ UNCHANGED << thread, created, run, designContext >>
  /\ UNCHANGED batchVars
  /\ UNCHANGED << prev, llmConfig, calls, ex, inv, auth >>

\* route.ts:182-199
logData(comment, ctx, message, status, error) ==
  [ comment_id |-> comment.id, comment_text |-> comment.message,
    node_id |-> ctx.nodeId, node_image |-> ctx.imageBase64,
    llm_response |-> message, status |-> status, error_message |-> error ]

\* How the insert into analysis_requests can end: stored, an error result
\* (route.ts:205), or an exception (route.ts:210).
InsertOutcomes == {"stored", "error", "throws"}

\* route.ts:180-219 with the insert made only for a successful analysis.
AuditInsertIfAnalysed ==
  /\ pc = "audit"
  /\ IF analysisStatus = "success"
     THEN \E outcome \in InsertOutcomes :
            audits' = Append(audits,
              [ record |-> logData(agentMentions[idx], designContext, replyMessage,
                                   analysisStatus, analysisError),
                outcome |-> outcome ])
     ELSE UNCHANGED audits
  /\ pc' = "post"
  /\ UNCHANGED << thread, created, run, rt, commentsData, agentMentions, idx,
                  replies, skipped, posts, response >>
  /\ UNCHANGED iterVars
  /\ UNCHANGED << prev, llmConfig, calls, ex, inv, auth >>

\* route.ts:180-219 without the try/catch of route.ts:181, 210-212: an insert
\* that throws is caught at route.ts:227 and the comment is skipped.
AuditInsertUncaught ==
  /\ pc = "audit"
  /\ \E outcome \in InsertOutcomes :
       /\ audits' = Append(audits,
            [ record |-> logData(agentMentions[idx], designContext, replyMessage,
                                 analysisStatus, analysisError),
              outcome |-> outcome ])
       /\ IF outcome # "throws"
          THEN /\ pc' = "post"
               /\ UNCHANGED << skipped, idx, response >>
          ELSE /\ skipped' = Append(skipped, [ commentId |-> agentMentions[idx].id,
                                               error |-> <<"f","e","t","c","h"," ","f","a","i","l","e","d">> ])
               /\ IF idx < Len(agentMentions)
                  THEN /\ pc' = "context"
                       /\ idx' = idx + 1
                       /\ UNCHANGED response
                  ELSE /\ pc' = "done"
                       /\ idx' = idx
                       /\ response' = Summary(commentsData, agentMentions, replies, skipped')
  /\ UNCHANGED << thread, created, run, rt, commentsData, agentMentions,
                  replies, posts >>
  /\ UNCHANGED iterVars
  /\ UNCHANGED << prev, llmConfig, calls, ex, inv, auth >>

\* route.ts:180-219 with the insert of route.ts:201-203 not awaited: the
\* reply is posted while the record is still to be written.
AuditInsertNotAwaited ==
  /\ pc = "audit"
  /\ pc' = "post"
  /\ UNCHANGED << thread, created, run, rt, commentsData, agentMentions, idx,
                  replies, skipped, audits, posts, response >>
  /\ UNCHANGED iterVars
  /\ UNCHANGED << prev, llmConfig, calls, ex, inv, auth >>

\* route.ts:180-219: the audit record is inserted; whatever comes of it, the
\* reply is posted next.
AuditInsert ==
  /\ pc = "audit"
  /\ \E outcome \in InsertOutcomes :
       audits' = Append(audits,
         [ record |-> logData(agentMentions[idx], designContext, replyMessage,
                              analysisStatus, analysisError),
           outcome |-> outcome ])
  /\ pc' = "post"
  /\ UNCHANGED << thread, created, run, rt, commentsData, agentMentions, idx,
                  replies, skipped, posts, response >>
  /\ UNCHANGED iterVars
  /\ UNCHANGED << prev, llmConfig, calls, ex, inv, auth >>

\* figma.ts:81-101 as Figma sees it: a reply to commentId by the owner of the
\* credential is added to the file's comments.
ReplyComment(comments, commentId, message, token) ==
  [ id |-> Len(comments) + 1, message |-> message, text |-> Undefined,
    content |-> Undefined, resolved_at |-> Null, parent_id |-> commentId,
    user |-> TokenOwner(token) ]

\* How postCommentReply can end: the reply is created and returned; Figma
\* refuses (figma.ts:94-98); the reply is created and the response body
\* cannot be read (figma.ts:100).
PostOutcomes == {"posted", "rejected", "unreadable"}

\* route.ts:148, 236-245 with the loop left at the first skipped comment.
LoopStepStopsOnSkip(sent, skips) ==
  IF idx < Len(agentMentions) /\ skips = <<>>
  THEN /\ pc' = "context"
       /\ idx' = idx + 1
       /\ UNCHANGED response
  ELSE /\ pc' = "done"
       /\ idx' = idx
       /\ response' = Summary(commentsData, agentMentions, sent, skips)

\* route.ts:148, 236-245: the next comment, or the summary after the last.
LoopStep(sent, skips) ==
  IF idx < Len(agentMentions)
  THEN /\ pc' = "context"
       /\ idx' = idx + 1
       /\ UNCHANGED response
  ELSE /\ pc' = "done"
       /\ idx' = idx
       /\ response' = Summary(commentsData, agentMentions, sent, skips)

\* route.ts:218 with the credential of the reading user.
PostTokenOfReader == UserToken

\* route.ts:218: the credential the reply is posted with.
PostToken == BotToken

\* route.ts:214-233 without the try/catch of route.ts:149, 227-233: a post
\* that throws ends the batch at route.ts:247-250.
PostReplyUncaught ==
  /\ pc = "post"
  /\ LET comment == agentMentions[idx]
         reply == ReplyComment(thread, comment.id, replyMessage, PostToken)
     IN  \E outcome \in PostOutcomes :
           /\ posts' = Append(posts, [ comment_id |-> comment.id, message |-> replyMessage,
                                       token |-> PostToken, outcome |-> outcome ])
           /\ IF outcome = "rejected"
              THEN UNCHANGED << thread, created >>
              ELSE /\ thread' = Append(thread, reply)
                   /\ created' = Append(created, comment.id)
           /\ IF outcome = "posted"
              THEN /\ replies' = Append(replies, [originalCommentId |-> comment.id,
                                                  reply |-> reply.id])
                   /\ LoopStep(replies', skipped)
              ELSE /\ UNCHANGED << replies, idx >>
                   /\ pc' = "done"
                   /\ response' = [status |-> 500, error |-> "Failed to post comment"]
           /\ UNCHANGED skipped
  /\ UNCHANGED << run, rt, commentsData, agentMentions, audits >>
  /\ UNCHANGED iterVars
  /\ UNCHANGED << prev, llmConfig, calls, ex, inv, auth >>

\* route.ts:214-233 with the reply put at the front of replies (unshift for
\* the push of route.ts:221).
PostReplyUnshift ==
  /\ pc = "post"
  /\ LET comment == agentMentions[idx]
         reply == ReplyComment(thread, comment.id, replyMessage, PostToken)
     IN  \E outcome \in PostOutcomes :
           /\ posts' = Append(posts, [ comment_id |-> comment.id, message |-> replyMessage,
                                       token |-> PostToken, outcome |-> outcome ])
           /\ IF outcome = "rejected"
              THEN UNCHANGED << thread, created >>
              ELSE /\ thread' = Append(thread, reply)
                   /\ created' = Append(created, comment.id)
           /\ IF outcome = "posted"
              THEN /\ replies' = << [originalCommentId |-> comment.id,
                                     reply |-> reply.id] >> \o replies
                   /\ UNCHANGED skipped
              ELSE /\ skipped' = Append(skipped,
                         [ commentId |-> comment.id,
                           error |-> IF outcome = "rejected" THEN PostRejectedMessage
                                     ELSE PostUnreadableMessage ])
                   /\ UNCHANGED replies
           /\ LoopStep(replies', skipped')
  /\ UNCHANGED << run, rt, commentsData, agentMentions, audits >>
  /\ UNCHANGED iterVars
  /\ UNCHANGED << prev, llmConfig, calls, ex, inv, auth >>

\* route.ts:214-233 without the push of route.ts:228-232: a comment whose
\* post throws is left out of the skip list.
PostReplyDropsFailure ==
  /\ pc = "post"
  /\ LET comment == agentMentions[idx]
         reply == ReplyComment(thread, comment.id, replyMessage, PostToken)
     IN  \E outcome \in PostOutcomes :
           /\ posts' = Append(posts, [ comment_id |-> comment.id, message |-> replyMessage,
                                       token |-> PostToken, outcome |-> outcome ])
           /\ IF outcome = "rejected"
              THEN UNCHANGED << thread, created >>
              ELSE /\ thread' = Append(thread, reply)
                   /\ created' = Append(created, comment.id)
           /\ replies' = IF outcome = "posted"
                         THEN Append(replies, [originalCommentId |-> comment.id,
                                               reply |-> reply.id])
                         ELSE replies
           /\ UNCHANGED skipped
           /\ LoopStep(replies', skipped')
  /\ UNCHANGED << run, rt, commentsData, agentMentions, audits >>
  /\ UNCHANGED iterVars
  /\ UNCHANGED << prev, llmConfig, calls, ex, inv, auth >>

\* route.ts:214-233: the reply is posted; the comment counts as replied or,
\* when posting throws, as skipped, and the loop goes on.
PostReply ==
  /\ pc = "post"
  /\ LET comment == agentMentions[idx]
         reply == ReplyComment(thread, comment.id, replyMessage, PostToken)
     IN  \E outcome \in PostOutcomes :
           /\ posts' = Append(posts, [ comment_id |-> comment.id, message |-> replyMessage,
                                       token |-> PostToken, outcome |-> outcome ])
           /\ IF outcome = "rejected"
              THEN UNCHANGED << thread, created >>
              ELSE /\ thread' = Append(thread, reply)
                   /\ created' = Append(created, comment.id)
           /\ IF outcome = "posted"
              THEN /\ replies' = Append(replies, [originalCommentId |-> comment.id,
                                                  reply |-> reply.id])
                   /\ UNCHANGED skipped
              ELSE /\ skipped' = Append(skipped,
                         [ commentId |-> comment.id,
                           error |-> IF outcome = "rejected" THEN PostRejectedMessage
                                     ELSE PostUnreadableMessage ])
                   /\ UNCHANGED replies
           /\ LoopStep(replies', skipped')
  /\ UNCHANGED << run, rt, commentsData, agentMentions, audits >>
  /\ UNCHANGED iterVars
  /\ UNCHANGED << prev, llmConfig, calls, ex, inv, auth >>

(***************************************************************************)
(* The pipeline: invocations of POST on one file, one after the other.     *)
(***************************************************************************)
\* resolved_at of a comment a human closed.
ResolvedAt == <<"2","0","2","4","-","0","5","-","0","1","T","1","0",":","0","0",":","0","0","Z">>

\* The comments a file can hold before the first invocation: comment k has
\* id k; each is a root comment or a reply, open or resolved, by a user or
\* by the bot, with or without a mention.
InitialComment(k, n) ==
  [ id : {k}, message : {MsgMention, MsgPlain}, text : {Undefined},
    content : {Undefined}, resolved_at : {Null, ResolvedAt},
    parent_id : (0..n) \ {k}, user : UserIds ]

InitialThreads ==
  UNION { { t \in [1..n -> UNION { InitialComment(k, n) : k \in 1..n }] :
              \A k \in 1..n : t[k].id = k } : n \in 0..MaxComments }

Init ==
  /\ thread \in InitialThreads
  /\ created = <<>>
  /\ run = 0
  /\ pc = "idle"
  /\ rt = IdleFrame
  /\ commentsData = [comments |-> <<>>]
  /\ agentMentions = <<>>
  /\ idx = 0
  /\ designContext = NoContext
  /\ replyMessage = Undefined
  /\ analysisStatus = "none"
  /\ analysisError = Null
  /\ replies = <<>>
  /\ skipped = <<>>
  /\ audits = <<>>
  /\ posts = <<>>
  /\ response = NoResponse
  /\ prev = [summary |-> FALSE, rejected |-> {}, audited |-> {}]
  /\ llmConfig \in LLMConfigs
  /\ calls = {}
  /\ ex = IdleEx
  /\ inv = NoInvocations
  /\ auth = NoAuth

Next ==
  \/ Invoke
  \/ UserLookup
  \/ BotLookup
  \/ RetryAttemptOk
  \/ RetryAttemptFail
  \/ RetrySleep
  \/ FetchThrown
  \/ FetchReturned
  \/ ExtractContext
  \/ AnalysisReturned
  \/ AnalysisThrown
  \/ AuditInsert
  \/ PostReply

Spec == Init /\ [][Next]_vars

\* The steps of an invocation under way: each awaits a call that returns or
\* fails, and then goes on.
Progress ==
  \/ UserLookup
  \/ BotLookup
  \/ RetryAttemptOk
  \/ RetryAttemptFail
  \/ RetrySleep
  \/ FetchThrown
  \/ FetchReturned
  \/ ExtractContext
  \/ AnalysisReturned
  \/ AnalysisThrown
  \/ AuditInsert
  \/ PostReply

\* The pipeline with every awaited call ending: an invocation under way
\* takes its next step.
SpecFair == Spec /\ WF_vars(Progress)

(***************************************************************************)
(* The Retry Guard on its own: withRetry called with any attempt budget, on *)
(* a function whose every call may resolve or reject.                      *)
(***************************************************************************)
\* The delays withRetry is called with (route.ts:86, 168).
Delays == {1000, 2000}

InitRest ==
  /\ thread = <<>>
  /\ created = <<>>
  /\ run = 0
  /\ agentMentions = <<>>
  /\ idx = 0
  /\ designContext = NoContext
  /\ replyMessage = Undefined
  /\ analysisStatus = "none"
  /\ analysisError = Null
  /\ replies = <<>>
  /\ skipped = <<>>
  /\ audits = <<>>
  /\ posts = <<>>
  /\ response = NoResponse
  /\ prev = [summary |-> FALSE, rejected |-> {}, audited |-> {}]
  /\ llmConfig = "gemini"
  /\ calls = {}
  /\ inv = NoInvocations
  /\ auth = NoAuth

InitRetry ==
  /\ pc = "retry"
  /\ rt = IdleFrame
  /\ ex = IdleEx
  /\ commentsData = [comments |-> <<>>]
  /\ InitRest

\* route.ts:10: withRetry is called; an earlier call has returned or thrown.
RetryCall ==
  /\ pc = "retry"
  /\ rt.st \in {"idle", "returned", "thrown"}
  /\ \E retries \in 0..MaxAttempts, delay \in Delays :
       rt' = withRetry("fn", retries, delay)
  /\ UNCHANGED calls
  /\ UNCHANGED postVars

NextRetry ==
  \/ RetryCall
  \/ RetryAttemptOk
  \/ RetryAttemptFail
  \/ RetrySleep

SpecRetry == InitRetry /\ [][NextRetry]_vars

(***************************************************************************)
(* The Mention Scanner on its own: the filter of route.ts:96-140 applied   *)
(* to any fetched collection.                                              *)
(***************************************************************************)
\* 'HEURISTICS AGENT?'
MsgUpper == <<"H","E","U","R","I","S","T","I","C","S"," ","A","G","E","N","T","?">>

\* 'x@heuristicsagentx': a pattern inside a longer word
MsgEmbedded == <<"x","@","h","e","u","r","i","s","t","i","c","s","a","g","e","n","t","x">>

\* '@heuristics-agent': no pattern
MsgNear == <<"@","h","e","u","r","i","s","t","i","c","s","-","a","g","e","n","t">>

\* The text fields a fetched comment can carry: message, or the alternate
\* fields text and content; each absent, empty or a text.
TextFields ==
  { [message |-> MsgMention,  text |-> Undefined, content |-> Undefined],
    [message |-> MsgEmbedded, text |-> Undefined, content |-> Undefined],
    [message |-> MsgNear,     text |-> MsgMention, content |-> Undefined],
    [message |-> Undefined,   text |-> Undefined, content |-> Undefined],
    [message |-> <<>>,        text |-> MsgUpper,  content |-> Undefined],
    [message |-> Undefined,   text |-> <<>>,      content |-> MsgMention] }

ScanComment(k, n) ==
  { [ id |-> k, message |-> f.message, text |-> f.text, content |-> f.content,
      resolved_at |-> r, parent_id |-> p, user |-> u ] :
      f \in TextFields, r \in {Null, ResolvedAt}, p \in (0..n) \ {k}, u \in UserIds }

ScanInputs ==
  UNION { { c \in [1..n -> UNION { ScanComment(k, n) : k \in 1..n }] :
              \A k \in 1..n : c[k].id = k } : n \in 0..MaxScanLen }

InitScan ==
  /\ pc = "scan"
  /\ rt = IdleFrame
  /\ ex = IdleEx
  /\ commentsData \in { [comments |-> c] : c \in ScanInputs }
  /\ InitRest

\* route.ts:92-140
Scan ==
  /\ pc = "scan"
  /\ agentMentions' = filterMentions(commentsData.comments)
  /\ pc' = "scanned"
  /\ UNCHANGED << thread, created, run, rt, commentsData, idx, replies, skipped,
                  audits, posts, response, prev, llmConfig, calls, ex, inv, auth >>
  /\ UNCHANGED iterVars

NextScan == Scan

SpecScan == InitScan /\ [][NextScan]_vars

(***************************************************************************)
(* The Context Extractor on its own: extractDesignContext called for any   *)
(* comment, each of its steps succeeding or failing.                       *)
(***************************************************************************)
\* node_offset.x, node_offset.y, region_width and region_height of the
\* comments, in Figma's pixels; a size of 0 stands for an absent one.
OffsetXs == {-30, 0, 401, 1000}

OffsetYs == {-30, 0, 800}

RegionWidths == {0, 200, 301, 400, 900}

RegionHeights == {0, 100, 801}

PinCorners == {"", "bottom-right", "bottom-left", "top-right", "top-left"}

\* comment.client_meta: without a node id, without an offset, or with an
\* offset and, for a region comment, a size and a pin corner.
ClientMetas ==
  { [ node_id |-> Undefined, hasOffset |-> FALSE, node_offset |-> [x |-> 0, y |-> 0],
      region_width |-> 0, region_height |-> 0, comment_pin_corner |-> "" ],
    [ node_id |-> NodeId, hasOffset |-> FALSE, node_offset |-> [x |-> 0, y |-> 0],
      region_width |-> 0, region_height |-> 0, comment_pin_corner |-> "" ] }
  \cup
  { [ node_id |-> NodeId, hasOffset |-> TRUE, node_offset |-> [x |-> x, y |-> y],
      region_width |-> w, region_height |-> h, comment_pin_corner |-> c ] :
      x \in OffsetXs, y \in OffsetYs, w \in RegionWidths, h \in RegionHeights,
      c \in PinCorners }

InitContext ==
  /\ pc = "extract"
  /\ rt = IdleFrame
  /\ commentsData = [comments |-> <<>>]
  /\ ex = IdleEx
  /\ InitRest

\* route.ts:153: extractDesignContext is called for a comment.
Extract ==
  /\ pc = "extract"
  /\ \E meta \in ClientMetas : ExtractCall(meta, ReadToken)

NextContext ==
  \/ Extract
  \/ ExNodeInfo
  \/ ExNodeImage
  \/ ExNodeImageRetry
  \/ ExDownload
  \/ ExMetadata
  \/ ExCrop
  \/ ExFallback

SpecContext == InitContext /\ [][NextContext]_vars

(***************************************************************************)
(* Invocations of POST that overlap on one file.  Each has its own locals  *)
(* (route.ts:84-146); the file's comments at Figma are all they share.  An *)
(* invocation is followed from its comment fetch on, with its              *)
(* preconditions met and its analysis and audit steps, which touch nothing *)
(* shared, folded into the step that posts.                                *)
(***************************************************************************)
\* Invocations that overlap.
MaxOverlap == 2

\* The locals of an invocation that has not fetched yet.
FreshInvocation ==
  [ pc |-> "fetch", comments |-> <<>>, agentMentions |-> <<>>, idx |-> 0, posts |-> <<>> ]

\* Everything but the file's comments and the overlapping invocations.
sequentialVars == << created, run, pc, rt, commentsData, agentMentions, idx,
                     designContext, replyMessage, analysisStatus, analysisError,
                     replies, skipped, audits, posts, response, prev, llmConfig,
                     calls, ex, auth >>

\* route.ts:84-142 for invocation i: the comments are fetched as they stand
\* and filtered; the loop starts, or the invocation ends.
RaceFetch(i) ==
  /\ inv[i].pc = "fetch"
  /\ inv' = [ inv EXCEPT ![i] =
               [ @ EXCEPT !.comments = thread,
                          !.agentMentions = filterMentions(thread),
                          !.idx = 1,
                          !.pc = IF filterMentions(thread) = <<>> THEN "done" ELSE "loop" ] ]
  /\ UNCHANGED thread
  /\ UNCHANGED sequentialVars

\* route.ts:148-234 for invocation i with a look at the file's comments as
\* they stand before the post: a comment answered meanwhile is left alone.
RacePostGuarded(i) ==
  /\ inv[i].pc = "loop"
  /\ LET comment == inv[i].agentMentions[inv[i].idx]
         last == inv[i].idx = Len(inv[i].agentMentions)
     IN  IF hasReply(comment, thread)
         THEN /\ inv' = [ inv EXCEPT ![i] =
                          [ @ EXCEPT !.idx = IF last THEN @ ELSE @ + 1,
                                     !.pc = IF last THEN "done" ELSE "loop" ] ]
              /\ UNCHANGED thread
         ELSE \E outcome \in PostOutcomes :
                /\ thread' = IF outcome = "rejected" THEN thread
                             ELSE Append(thread, ReplyComment(thread, comment.id,
                                                              AnalysisText, PostToken))
                /\ inv' = [ inv EXCEPT ![i] =
                            [ @ EXCEPT !.posts = Append(@, comment.id),
                                       !.idx = IF last THEN @ ELSE @ + 1,
                                       !.pc = IF last THEN "done" ELSE "loop" ] ]
  /\ UNCHANGED sequentialVars

\* route.ts:148-234 for invocation i: the next comment of its agentMentions
\* is analysed and its reply is posted; the comments it fetched are not
\* looked at again.
RacePost(i) ==
  /\ inv[i].pc = "loop"
  /\ LET comment == inv[i].agentMentions[inv[i].idx]
         last == inv[i].idx = Len(inv[i].agentMentions)
     IN  \E outcome \in PostOutcomes :
           /\ thread' = IF outcome = "rejected" THEN thread
                        ELSE Append(thread, ReplyComment(thread, comment.id,
                                                         AnalysisText, PostToken))
           /\ inv' = [ inv EXCEPT ![i] =
                       [ @ EXCEPT !.posts = Append(@, comment.id),
                                  !.idx = IF last THEN @ ELSE @ + 1,
                                  !.pc = IF last THEN "done" ELSE "loop" ] ]
  /\ UNCHANGED sequentialVars

InitRace ==
  /\ thread \in InitialThreads
  /\ inv = [ i \in 1..MaxOverlap |-> FreshInvocation ]
  /\ auth = NoAuth
  /\ pc = "race"
  /\ rt = IdleFrame
  /\ ex = IdleEx
  /\ commentsData = [comments |-> <<>>]
  /\ created = <<>>
  /\ run = 0
  /\ agentMentions = <<>>
  /\ idx = 0
  /\ designContext = NoContext
  /\ replyMessage = Undefined
  /\ analysisStatus = "none"
  /\ analysisError = Null
  /\ replies = <<>>
  /\ skipped = <<>>
  /\ audits = <<>>
  /\ posts = <<>>
  /\ response = NoResponse
  /\ prev = [summary |-> FALSE, rejected |-> {}, audited |-> {}]
  /\ llmConfig = "gemini"
  /\ calls = {}

NextRace ==
  \/ \E i \in 1..MaxOverlap : RaceFetch(i)
  \/ \E i \in 1..MaxOverlap : RacePost(i)

SpecRace == InitRace /\ [][NextRace]_vars

(***************************************************************************)
(* The sign-in handshake: the login and poll endpoints                     *)
(* (auth/figma/login/route.ts), the OAuth callback (part_006), the tables  *)
(* auth_codes and users (part_004), and the user lookup of the analyze     *)
(* endpoint (route.ts:53-63) for a session the poll issued.                *)
(***************************************************************************)
\* The tokens the poll endpoint issues for one state, at most.
MaxTokens == 2

\* The values of the state parameter the plugin chooses.
AuthStates == {"s1", "s2"}

\* The ids Figma gives its users (figmaUser.id, part_006:26).
FigmaIds == {"101", "202"}

\* users.id, the uuid the table gives a row when it is inserted
\* (part_004:6); an upsert on figma_id keeps it.
UuidOf(figmaId) == IF figmaId = "101" THEN "uuid-a" ELSE "uuid-b"

\* auth_codes has no row for a state; a row whose user_id is null.
NoRow == "none"

NullUserId == "null"

\* The handshake before any request: both tables empty, nothing answered.
FreshAuth ==
  [ codes |-> [ s \in AuthStates |-> NoRow ],
    users |-> {},
    recorded |-> [ s \in AuthStates |-> FALSE ],
    renewed |-> [ s \in AuthStates |-> FALSE ],
    issued |-> [ s \in AuthStates |-> <<>> ],
    polled |-> [ s \in AuthStates |-> "none" ],
    lookups |-> {} ]

\* Everything but the handshake.
pipelineVars == << thread, created, run, pc, rt, commentsData, agentMentions, idx,
                   designContext, replyMessage, analysisStatus, analysisError,
                   replies, skipped, audits, posts, response, prev, llmConfig,
                   calls, ex, inv >>

\* login/route.ts:5-33: a row for the state is inserted into auth_codes; the
\* insert fails when the state has a row already (code is the primary key)
\* or when the store fails, and then nothing is stored.
AuthLogin(state) ==
  /\ \E stored \in BOOLEAN :
       auth' = IF stored /\ auth.codes[state] = NoRow
               THEN [ auth EXCEPT !.codes[state] = NullUserId ]
               ELSE auth
  /\ UNCHANGED pipelineVars

\* part_006:6-59: the code is exchanged, the profile is read, the user is
\* upserted on figma_id and user.id is written to the row of the state.  A
\* step that fails ends the callback; the update of a state without a row
\* changes nothing.
AuthCallback(state, figmaId) ==
  /\ \E outcome \in {"exchangeFailed", "upsertFailed", "updateFailed", "ok"} :
       auth' = IF outcome \in {"exchangeFailed", "upsertFailed"} THEN auth
               ELSE IF outcome = "updateFailed" \/ auth.codes[state] = NoRow
               THEN [ auth EXCEPT !.users = @ \cup {figmaId} ]
               ELSE [ auth EXCEPT !.users = @ \cup {figmaId},
                                  !.codes[state] = UuidOf(figmaId),
                                  !.recorded[state] = TRUE,
                                  !.renewed[state] = TRUE ]
  /\ UNCHANGED pipelineVars

\* A session the poll signs (login/route.ts:72): its subject, whether the
\* delete that follows removed the row, and whether the callback had written
\* the row since the last session for the state.
Session(state, deleted) ==
  [ sub |-> auth.codes[state], deleted |-> deleted, renewed |-> auth.renewed[state] ]

\* The poll without the test of data.user_id.
AuthPollWithoutUserId(state) ==
  /\ \E selected \in BOOLEAN, signed \in BOOLEAN, deleted \in BOOLEAN :
       IF ~selected \/ auth.codes[state] = NoRow
       THEN auth' = [ auth EXCEPT !.polled[state] = "pending" ]
       ELSE IF ~signed
       THEN auth' = [ auth EXCEPT !.polled[state] = "error" ]
       ELSE /\ Len(auth.issued[state]) < MaxTokens
            /\ auth' = [ auth EXCEPT !.polled[state] = "complete",
                                     !.issued[state] = Append(@, Session(state, deleted)),
                                     !.renewed[state] = FALSE,
                                     !.codes[state] = IF deleted THEN NoRow ELSE @ ]
  /\ UNCHANGED pipelineVars

\* login/route.ts:50-82: the poll.  Without a row, with a row without
\* user_id, or when the select fails, it answers pending; else it signs a
\* session with sub = user_id (a throw is answered with 500), asks for the
\* row to be deleted without looking at the result, and answers complete
\* with the token.
AuthPoll(state) ==
  /\ \E selected \in BOOLEAN, signed \in BOOLEAN, deleted \in BOOLEAN :
       IF ~selected \/ auth.codes[state] \in {NoRow, NullUserId}
       THEN auth' = [ auth EXCEPT !.polled[state] = "pending" ]
       ELSE IF ~signed
       THEN auth' = [ auth EXCEPT !.polled[state] = "error" ]
       ELSE /\ Len(auth.issued[state]) < MaxTokens
            /\ auth' = [ auth EXCEPT !.polled[state] = "complete",
                                     !.issued[state] = Append(@, Session(state, deleted)),
                                     !.renewed[state] = FALSE,
                                     !.codes[state] = IF deleted THEN NoRow ELSE @ ]
  /\ UNCHANGED pipelineVars

\* route.ts:57-61: the row of users whose figma_id is session.sub.
userByFigmaId(sub) == { f \in auth.users : f = sub }

\* route.ts:36-66 for a request that carries a session the poll issued for
\* the state: the user is looked up and found, or the request ends with
\* 'User not found or not connected to Figma'.
AuthAnalyze(state) ==
  /\ auth.issued[state] # <<>>
  /\ LET sub == auth.issued[state][Len(auth.issued[state])].sub
     IN  auth' = [ auth EXCEPT !.lookups = @ \cup
                     { [ sub |-> sub, found |-> userByFigmaId(sub) # {} ] } ]
  /\ UNCHANGED pipelineVars

InitAuth ==
  /\ auth = FreshAuth
  /\ pc = "auth"
  /\ rt = IdleFrame
  /\ ex = IdleEx
  /\ commentsData = [comments |-> <<>>]
  /\ thread = <<>>
  /\ created = <<>>
  /\ run = 0
  /\ agentMentions = <<>>
  /\ idx = 0
  /\ designContext = NoContext
  /\ replyMessage = Undefined
  /\ analysisStatus = "none"
  /\ analysisError = Null
  /\ replies = <<>>
  /\ skipped = <<>>
  /\ audits = <<>>
  /\ posts = <<>>
  /\ response = NoResponse
  /\ prev = [summary |-> FALSE, rejected |-> {}, audited |-> {}]
  /\ llmConfig = "gemini"
  /\ calls = {}
  /\ inv = NoInvocations

NextAuth ==
  \/ \E state \in AuthStates : AuthLogin(state)
  \/ \E state \in AuthStates, figmaId \in FigmaIds : AuthCallback(state, figmaId)
  \/ \E state \in AuthStates : AuthPoll(state)
  \/ \E state \in AuthStates : AuthAnalyze(state)

SpecAuth == InitAuth /\ [][NextAuth]_vars

(***************************************************************************)
(* Claims.                                                                 *)
(***************************************************************************)
\* The first of message, text, content that is a non-empty string, in lower
\* case; <<>> when there is none.
LowerText(c) ==
  ToLowerCase(IF c.message # Undefined /\ Len(c.message) > 0 THEN c.message
              ELSE IF c.text # Undefined /\ Len(c.text) > 0 THEN c.text
              ELSE IF c.content # Undefined /\ Len(c.content) > 0 THEN c.content
              ELSE <<>>)

\* The four rules of an actionable comment, as a conjunction.
Actionable(c, coll) ==
  /\ c.resolved_at \in {Null, Undefined}
  /\ \E p \in 1..Len(mentionPatterns) : Includes(LowerText(c), mentionPatterns[p])
  /\ ~ \E k \in 1..Len(coll) : coll[k].parent_id = c.id /\ coll[k].user = botFigmaUserId
  /\ c.user # botFigmaUserId

\* The positions of the actionable comments of a collection.
ActionableAt(coll) == { k \in 1..Len(coll) : Actionable(coll[k], coll) }

\* The j-th smallest member of a set of positions.
NthOf(P, j) == CHOOSE k \in P : Cardinality({ m \in P : m < k }) = j - 1

\* C5: the Mention Scanner's output is exactly the order-preserving
\* subsequence of the fetched comments that are unresolved, carry a mention
\* pattern in their lower-cased text, have no bot-authored child in the
\* collection and are not bot-authored; a comment with missing or empty
\* text is left out, and scanning it raises no error.
Thm_C5 ==
  pc = "scanned" =>
    LET coll == commentsOrEmpty(commentsData)
        P == ActionableAt(coll)
    IN  /\ Len(agentMentions) = Cardinality(P)
        /\ \A j \in 1..Len(agentMentions) : agentMentions[j] = coll[NthOf(P, j)]
        /\ \A k \in 1..Len(coll) :
             LowerText(coll[k]) = <<>> =>
               \A j \in 1..Len(agentMentions) : agentMentions[j].id # coll[k].id

\* A scan that kept the second of two comments and dropped the first, which
\* has no text, while a mention written in capitals in an alternate field
\* was recognised.
Wit_C5 ==
  /\ pc = "scanned"
  /\ Len(commentsOrEmpty(commentsData)) = 2
  /\ LowerText(commentsOrEmpty(commentsData)[1]) = <<>>
  /\ commentsOrEmpty(commentsData)[2].message = <<>>
  /\ commentsOrEmpty(commentsData)[2].text = MsgUpper
  /\ Len(agentMentions) = 1
  /\ agentMentions[1].id = 2

\* How often x occurs in a sequence.
Count(seq, x) == Cardinality({ k \in 1..Len(seq) : seq[k] = x })

\* The positions in the thread of the bot's replies to comment c.
BotRepliesTo(c) ==
  { k \in 1..Len(thread) : thread[k].parent_id = c /\ thread[k].user = botFigmaUserId }

\* The ids in a list of records, read with a field accessor.
RepliedIds == { replies[k].originalCommentId : k \in 1..Len(replies) }

SkippedIds == { skipped[k].commentId : k \in 1..Len(skipped) }

\* C1: over invocations that follow one another, each fetching the thread
\* with every reply created before, no comment gets a second bot reply:
\* the invocations create at most one reply per parent, and a comment they
\* replied to has exactly one bot reply in the thread.
Thm_C1 ==
  \A c \in 1..Len(thread) :
    /\ Count(created, c) <= 1
    /\ Count(created, c) = 1 => Cardinality(BotRepliesTo(c)) = 1

\* A second invocation has fetched a thread that holds the reply of the
\* first, and has ended without posting.
Wit_C1 ==
  /\ run = 2
  /\ pc = "done"
  /\ response.status = 200
  /\ created # <<>>
  /\ commentsOrEmpty(commentsData) = thread
  /\ posts = <<>>

\* C2 as stated: after an invocation that returned a summary, the next
\* invocation on the thread as that one left it creates no reply.
Orig_C2 ==
  prev.summary => \A k \in 1..Len(posts) : posts[k].outcome = "rejected"

\* C2, amended: after an invocation that returned a summary, the next one
\* posts only to comments whose reply Figma refused in that invocation; if
\* none was refused it posts nothing.
Thm_C2 ==
  prev.summary => \A k \in 1..Len(posts) : posts[k].comment_id \in prev.rejected

\* The first invocation replied to one comment and was refused on another;
\* the second has replied to that other one alone.
Wit_C2 ==
  /\ run = 2
  /\ pc = "done"
  /\ prev.summary
  /\ Cardinality(prev.rejected) = 1
  /\ Len(created) = 2
  /\ Count(created, created[1]) = 1
  /\ Len(posts) = 1
  /\ posts[1].outcome = "posted"

\* C3: when posting the reply to actionable comment A fails, every later
\* actionable comment B is still processed in the invocation (its audit
\* insert and its post are made), and when B's post succeeds B is in replies
\* and A in the skip list.
Thm_C3 ==
  \A a \in 1..Len(agentMentions), b \in 1..Len(agentMentions) :
    (a < b /\ a <= Len(posts) /\ posts[a].outcome # "posted") =>
      /\ pc \in {"context", "analyze", "audit", "post", "done"}
      /\ pc = "done" =>
           /\ response.status = 200
           /\ Len(audits) >= b /\ audits[b].record.comment_id = agentMentions[b].id
           /\ Len(posts) >= b /\ posts[b].comment_id = agentMentions[b].id
      /\ (b <= Len(posts) /\ posts[b].outcome = "posted") =>
           /\ agentMentions[b].id \in RepliedIds
           /\ agentMentions[a].id \in SkippedIds
           /\ agentMentions[a].id \notin RepliedIds

\* The post for the first of two actionable comments was refused and the
\* post for the second went through.
Wit_C3 ==
  /\ pc = "done"
  /\ Len(agentMentions) = 2
  /\ Len(posts) = 2
  /\ posts[1].outcome = "rejected"
  /\ posts[2].outcome = "posted"

\* C4: with a budget of three attempts, two failures and then a success
\* make withRetry return that success value; failures on all attempts make
\* it throw the error of the last attempt, as that attempt threw it.
Thm_C4 ==
  /\ ( /\ rt.retries = 3
       /\ Len(rt.log) = 3
       /\ ~rt.log[1].ok /\ ~rt.log[2].ok /\ rt.log[3].ok )
       => (rt.st = "returned" /\ rt.value = rt.log[3].value)
  /\ ( /\ rt.retries > 0
       /\ Len(rt.log) = rt.retries
       /\ \A k \in 1..Len(rt.log) : ~rt.log[k].ok )
       => (rt.st = "thrown" /\ rt.lastError = rt.log[rt.retries].error)

\* Three attempts failed, the last with another error than the first, and
\* withRetry has thrown.
Wit_C4 ==
  /\ rt.retries = 3
  /\ rt.st = "thrown"
  /\ Len(rt.log) = 3
  /\ rt.log[1].error # rt.log[3].error

\* C6: a comment that is resolved in the fetched comments is not among the
\* agent mentions, whatever its text, author and replies, and no reply is
\* posted to it.
Thm_C6 ==
  \A k \in 1..Len(commentsOrEmpty(commentsData)) :
    Truthy(commentsOrEmpty(commentsData)[k].resolved_at) =>
      /\ \A j \in 1..Len(agentMentions) : agentMentions[j].id # commentsOrEmpty(commentsData)[k].id
      /\ \A p \in 1..Len(posts) : posts[p].comment_id # commentsOrEmpty(commentsData)[k].id

\* An invocation has ended after replying to one comment, while a resolved
\* comment of a user, with a mention and no reply, got none.
Wit_C6 ==
  /\ pc = "done"
  /\ Len(posts) = 1
  /\ \E k \in 1..Len(commentsOrEmpty(commentsData)) :
       LET c == commentsOrEmpty(commentsData)[k]
       IN  /\ Truthy(c.resolved_at)
           /\ c.message = MsgMention
           /\ c.user # botFigmaUserId
           /\ ~hasReply(c, commentsOrEmpty(commentsData))

\* C7: no comment of the bot is among the agent mentions, even with a
\* mention in its text, and over the invocations no reply is posted to a
\* comment of the bot.
Thm_C7 ==
  /\ \A j \in 1..Len(agentMentions) : agentMentions[j].user # botFigmaUserId
  /\ \A p \in 1..Len(posts) : \A k \in 1..Len(commentsOrEmpty(commentsData)) :
       commentsOrEmpty(commentsData)[k].id = posts[p].comment_id =>
         commentsOrEmpty(commentsData)[k].user # botFigmaUserId
  /\ \A k \in 1..Len(created) : thread[created[k]].user # botFigmaUserId

\* A second invocation has fetched the reply the first one posted, whose
\* text names the agent, and has ended without posting.
Wit_C7 ==
  /\ run = 2
  /\ pc = "done"
  /\ response.status = 200
  /\ posts = <<>>
  /\ \E k \in 1..Len(commentsOrEmpty(commentsData)) :
       LET c == commentsOrEmpty(commentsData)[k]
       IN  /\ c.user = botFigmaUserId
           /\ c.message = AnalysisText
           /\ hasMention(messageText(c))
           /\ ~hasReply(c, commentsOrEmpty(commentsData))

\* The attempts of the analysis call were three and all failed.
AnalysisExhausted ==
  /\ pc = "analyze"
  /\ Len(rt.log) = 3
  /\ \A k \in 1..3 : ~rt.log[k].ok

\* The apology with the detail of an error message.
ApologyFor(detail) == ApologyPrefix \o detail \o ApologySuffix

\* The steps of a comment whose analysis failed on all three attempts.
C8Step ==
  /\ AnalysisExhausted =>
       /\ rt.st = "thrown"
       /\ pc' = "audit"
       /\ idx' = idx
       /\ analysisStatus' = "error"
       /\ analysisError' = rt.log[3].error.message
       /\ replyMessage' = ApologyFor(rt.log[3].error.message)
  /\ (pc = "audit" /\ analysisStatus = "error") =>
       /\ replyMessage = ApologyFor(analysisError)
       /\ pc' = "post"
       /\ Len(audits') = Len(audits) + 1
       /\ audits'[Len(audits')].record.comment_id = agentMentions[idx].id
       /\ audits'[Len(audits')].record.llm_response = replyMessage
       /\ audits'[Len(audits')].record.status = "error"
       /\ audits'[Len(audits')].record.error_message = analysisError
       /\ UNCHANGED << replyMessage, analysisStatus, analysisError, idx >>
  /\ (pc = "post" /\ analysisStatus = "error") =>
       /\ replyMessage = ApologyFor(analysisError)
       /\ Len(posts') = Len(posts) + 1
       /\ posts'[Len(posts')].comment_id = agentMentions[idx].id
       /\ posts'[Len(posts')].message = replyMessage
       /\ IF idx < Len(agentMentions)
          THEN pc' = "context" /\ idx' = idx + 1
          ELSE pc' = "done" /\ response'.status = 200

\* C8: when the analysis call fails on all 3 attempts for a comment, the
\* status of the comment becomes error with the message of the error, the
\* reply message becomes the apology holding that message, the apology is
\* logged in the audit record and posted as the reply, and the batch goes
\* on to the next comment or to the summary.
Thm_C8 == [][C8Step]_vars

\* The analysis of the first of two comments failed three times; its apology
\* was logged and posted, and the second comment was analysed and answered.
Wit_C8 ==
  /\ pc = "done"
  /\ response.status = 200
  /\ Len(agentMentions) = 2
  /\ Len(audits) = 2
  /\ Len(posts) = 2
  /\ audits[1].record.status = "error"
  /\ audits[1].record.error_message \in LLMErrorMessages
  /\ posts[1].message = ApologyFor(audits[1].record.error_message)
  /\ posts[1].outcome = "posted"
  /\ audits[2].record.status = "success"
  /\ posts[2].message = AnalysisText

\* The number of comments of the invocation whose audit insert is due.
AuditsDue ==
  CASE pc \in {"context", "analyze", "audit"} -> idx - 1
    [] pc = "post" -> idx
    [] pc = "done" /\ response.status = 200 -> Len(agentMentions)
    [] OTHER -> 0

\* C9: every actionable comment the invocation has processed has exactly
\* one audit insert, made whether its analysis succeeded or failed, and
\* the llm_response and status of the record are the reply message and the
\* analysis status of that comment.
Thm_C9 ==
  /\ Len(audits) = AuditsDue
  /\ \A k \in 1..Len(audits) :
       /\ audits[k].record.comment_id = agentMentions[k].id
       /\ audits[k].record.status \in {"success", "error"}
       /\ audits[k].record.status = "success" <=> audits[k].record.llm_response = AnalysisText
       /\ audits[k].record.status = "error" <=>
            \E e \in FnErrors("analyzeDesign") :
              audits[k].record.llm_response = ApologyFor(e.message)
       /\ k <= Len(posts) => posts[k].message = audits[k].record.llm_response
  /\ pc = "post" =>
       /\ audits[idx].record.llm_response = replyMessage
       /\ audits[idx].record.status = analysisStatus

\* Two comments were processed, one analysed and one not; each has its one
\* audit insert.
Wit_C9 ==
  /\ pc = "done"
  /\ Len(agentMentions) = 2
  /\ Len(audits) = 2
  /\ audits[1].record.status = "success"
  /\ audits[2].record.status = "error"
  /\ audits[2].outcome = "error"

\* The error a skipped comment is recorded with, by the way its post ended.
PostingError(outcome) ==
  IF outcome = "rejected" THEN PostRejectedMessage ELSE PostUnreadableMessage

\* C10: a failed reply post neither ends the invocation nor loses the audit
\* insert of its comment: the insert of a comment is made before its post,
\* the comment is put on the skip list with the error of the post, and the
\* invocation still processes every comment and ends with the summary.
Thm_C10 ==
  /\ Len(posts) <= Len(audits)
  /\ pc = "post" => Len(audits) = Len(posts) + 1
  /\ \A k \in 1..Len(posts) :
       /\ audits[k].record.comment_id = posts[k].comment_id
       /\ posts[k].outcome # "posted" =>
            \E j \in 1..Len(skipped) :
              /\ skipped[j].commentId = posts[k].comment_id
              /\ skipped[j].error = PostingError(posts[k].outcome)
  /\ (pc = "done" /\ posts # <<>>) =>
       /\ response.status = 200
       /\ Len(posts) = Len(agentMentions)
       /\ Len(audits) = Len(agentMentions)
       /\ response.skipped = Len(skipped)

\* The post for the first of two comments was refused after its audit
\* record was stored; the second comment was processed all the same.
Wit_C10 ==
  /\ pc = "done"
  /\ Len(agentMentions) = 2
  /\ audits[1].outcome = "stored"
  /\ posts[1].outcome = "rejected"
  /\ skipped # <<>>
  /\ skipped[1].commentId = agentMentions[1].id
  /\ Len(posts) = 2

\* C11: an audit insert that ends in an error result or throws does not
\* block the comment: its reply is still posted, and when the post succeeds
\* the comment is in replies and not in the skip list.
Thm_C11 ==
  \A k \in 1..Len(audits) :
    audits[k].outcome \in {"error", "throws"} =>
      /\ Len(posts) < k => (k = Len(audits) /\ pc = "post")
      /\ k <= Len(posts) =>
           /\ posts[k].comment_id = audits[k].record.comment_id
           /\ posts[k].message = audits[k].record.llm_response
           /\ posts[k].outcome = "posted" =>
                /\ posts[k].comment_id \in RepliedIds
                /\ posts[k].comment_id \notin SkippedIds

\* The insert for a comment threw, its reply was posted, and the summary
\* counts it as replied.
Wit_C11 ==
  /\ pc = "done"
  /\ Len(audits) = 1
  /\ audits[1].outcome = "throws"
  /\ posts[1].outcome = "posted"
  /\ response.status = 200
  /\ response.repliesSent = 1
  /\ response.skipped = 0

\* The invocation has processed no comment: no context extraction, no
\* generative call, no audit insert and no reply post.
NothingProcessed ==
  /\ audits = <<>>
  /\ posts = <<>>
  /\ \A c \in calls : c.fn = "getFileComments"
  /\ pc \notin {"context", "analyze", "audit", "post"}

\* The error responses of the credential preconditions (route.ts:60-79).
PreconditionResponses ==
  { [status |-> 404, error |-> "User not found or not connected to Figma"],
    [status |-> 500, error |-> "Bot account not configured"],
    [status |-> 500, error |-> "Bot account not authenticated"],
    [status |-> 500, error |-> "Failed to fetch user"] }

\* C12 as stated: a missing credential or a missing configuration, that of
\* the generative service included, ends the invocation with one error
\* response before any comment is processed.
Orig_C12 ==
  /\ (pc = "done" /\ response \in PreconditionResponses) => NothingProcessed
  /\ llmConfig # "gemini" =>
       /\ NothingProcessed
       /\ pc = "done" => response.status # 200

\* The error response to a comment fetch that failed for good (route.ts:89).
FetchExhaustedResponse == [status |-> 502, error |-> "Failed to fetch comments from Figma"]

\* The comment fetch has failed on all three attempts.
FetchExhausted ==
  /\ pc = "fetch"
  /\ Len(rt.log) = 3
  /\ \A k \in 1..3 : ~rt.log[k].ok

\* The steps and states of an invocation around the end of its batch.
C13Step ==
  /\ FetchExhausted =>
       /\ rt.st = "thrown"
       /\ NothingProcessed
       /\ pc' = "done"
       /\ response' = FetchExhaustedResponse
       /\ NothingProcessed'
       /\ agentMentions' = <<>>
  /\ (response' = FetchExhaustedResponse /\ response # FetchExhaustedResponse) =>
       FetchExhausted
  /\ (pc = "done" /\ response.status # 200) =>
       /\ NothingProcessed
       /\ agentMentions = <<>>
  /\ (pc = "done" /\ agentMentions # <<>>) =>
       /\ response.status = 200
       /\ Len(audits) = Len(agentMentions)
       /\ Len(posts) = Len(agentMentions)

ReadFns == {"getFileComments", "getNodeInfo", "getNodeImage"}

\* C14: every reply post carries the bot's credential and never that of the
\* reading user, and every read of Figma (comment fetch, node metadata
\* fetch, render fetch) carries the reading user's credential and never
\* the bot's.
Thm_C14 ==
  /\ \A k \in 1..Len(posts) :
       posts[k].token = BotToken /\ posts[k].token # UserToken
  /\ \A c \in calls :
       c.fn \in ReadFns => (c.token = UserToken /\ c.token # BotToken)

\* An invocation has made each of the three reads and has posted a reply.
Wit_C14 ==
  /\ pc = "done"
  /\ posts # <<>>
  /\ posts[1].outcome = "posted"
  /\ \A f \in ReadFns : \E c \in calls : c.fn = f

\* The position in agentMentions of the comment with an id.
MentionPosition(id) == CHOOSE p \in 1..Len(agentMentions) : agentMentions[p].id = id

\* C15: replies holds actionable comments only, each once, in the order in
\* which agentMentions holds them, whatever succeeded and failed for each
\* comment.
Thm_C15 ==
  /\ \A j \in 1..Len(replies) :
       \E p \in 1..Len(agentMentions) : agentMentions[p].id = replies[j].originalCommentId
  /\ \A j \in 1..Len(replies), k \in 1..Len(replies) :
       j < k => MentionPosition(replies[j].originalCommentId)
                  < MentionPosition(replies[k].originalCommentId)

\* Two comments were answered, the first after a failed analysis and a
\* failed audit insert, and replies holds them in their order.
Wit_C15 ==
  /\ pc = "done"
  /\ Len(agentMentions) = 2
  /\ Len(replies) = 2
  /\ audits[1].record.status = "error"
  /\ audits[1].outcome = "throws"
  /\ replies[1].originalCommentId = agentMentions[1].id
  /\ replies[2].originalCommentId = agentMentions[2].id

\* C16: every crop rectangle the Geometry Resolver accepts (both clamped
\* dimensions above 0) has whole, non-negative x and y, whole, positive
\* width and height, and lies inside the image: x + width <= imgW and
\* y + height <= imgH, for every offset, region size, pin corner, scale and
\* image size.
Thm_C16 ==
  (ex.crop # NoCrop /\ ValidCrop(ex.crop)) =>
    /\ ex.crop.x \in Nat
    /\ ex.crop.y \in Nat
    /\ ex.crop.width \in Nat \ {0}
    /\ ex.crop.height \in Nat \ {0}
    /\ ex.crop.x + ex.crop.width <= ex.metadata.width
    /\ ex.crop.y + ex.crop.height <= ex.metadata.height

\* A crop was accepted whose window began left of the image and reached
\* beyond its right and lower edges before the clamp.
Wit_C16 ==
  /\ ex.st = "crop"
  /\ ex.pre.x < 0
  /\ ex.pre.x + ex.pre.width > ex.metadata.width
  /\ ex.pre.y + ex.pre.height > ex.metadata.height
  /\ ex.crop.x = 0
  /\ ex.crop.width = ex.metadata.width

\* The region comment with node_offset (1000,800), region_width 200,
\* region_height 100 and comment_pin_corner 'top-left', at scale 1.
C17Case ==
  /\ ex.region # NoCrop
  /\ ex.meta.node_offset = [x |-> 1000, y |-> 800]
  /\ ex.meta.region_width = 200
  /\ ex.meta.region_height = 100
  /\ ex.meta.comment_pin_corner = "top-left"
  /\ ex.currentScale = ScaleOne

\* C17: for the region comment with node_offset (1000,800), region 200 x
\* 100 and pin corner 'top-left' at scale 1, the resolved region has its
\* top-left at exactly (1000,800) and the size 200 x 100.
Thm_C17 ==
  C17Case =>
    ex.region = [ left |-> 1000 * Unit, top |-> 800 * Unit,
                  width |-> 200 * Unit, height |-> 100 * Unit ]

\* The region of that comment was resolved for an image fetched at scale 1.
Wit_C17 ==
  /\ C17Case
  /\ ex.st = "crop"
  /\ ex.fetches[Len(ex.fetches)].scale = ScaleOne
  /\ ex.region.left = 4000

\* The region of a region comment is below MIN_VIEWPORT_SIZE in width and
\* in height, scaled.
SmallRegion ==
  /\ ex.region # NoCrop
  /\ ex.region.width < MIN_VIEWPORT_SIZE * Unit
  /\ ex.region.height < MIN_VIEWPORT_SIZE * Unit

\* The centroid of the region, in quarters.
CentroidX == ex.region.left + ex.region.width \div 2

CentroidY == ex.region.top + ex.region.height \div 2

\* C18: a region whose scaled width and scaled height are both below 800 is
\* replaced, before the clamp, by a square of 800 x 800 whose centre is the
\* centroid of the region, the corner of the square being rounded to the
\* whole pixel; the crop is never the tight rectangle of the region.
Thm_C18 ==
  SmallRegion =>
    /\ ex.pre.width = 800
    /\ ex.pre.height = 800
    /\ ex.pre.x = Round(CentroidX - 400 * Unit)
    /\ ex.pre.y = Round(CentroidY - 400 * Unit)
    /\ (ex.pre.x + 400) * Unit - CentroidX \in -1..2
    /\ (ex.pre.y + 400) * Unit - CentroidY \in -1..2
    /\ ex.pre.width > Round(ex.region.width)
    /\ ex.pre.height > Round(ex.region.height)

\* A region of 200 x 100 at (1000,800), scale 1, with its centroid at
\* (1100,850), got the window with the corner (700,450), which was accepted
\* as the crop.
Wit_C18 ==
  /\ SmallRegion
  /\ ex.st = "crop"
  /\ CentroidX = 1100 * Unit
  /\ CentroidY = 850 * Unit
  /\ ex.pre = [x |-> 700, y |-> 450, width |-> 800, height |-> 800]

\* A step of the extractor threw.
Failed(step) == \E k \in 1..Len(ex.failed) : ex.failed[k] = step

\* The render fetch gave an image locator, and the crop threw or the
\* geometry was invalid; the context has been returned.
CropFailedWithImage ==
  /\ ex.st = "returned"
  /\ Truthy(ex.imageUrl)
  /\ Failed("crop") \/ Failed("geometry")

\* C19 as stated: whenever the render fetch gave an image locator and the
\* crop threw or the geometry was invalid, the returned context has a
\* non-empty imageBase64 made by the full-frame fallback.
Orig_C19 ==
  CropFailedWithImage => ex.result.imageBase64 = FullJpeg

\* C19, amended: in that case the returned context has the imageBase64 of
\* the full-frame fallback unless the fallback itself (the second download,
\* the resize or the encoding) throws; then imageBase64 is unset and
\* imageUrl is still returned.
Thm_C19 ==
  CropFailedWithImage =>
    /\ ex.result.imageUrl = ex.imageUrl
    /\ IF Failed("fallback")
       THEN ex.result.imageBase64 = Undefined
       ELSE ex.result.imageBase64 = FullJpeg /\ ex.result.imageBase64 # <<>>

\* The crop threw and the fallback encoded the whole bitmap.
Wit_C19 ==
  /\ CropFailedWithImage
  /\ Failed("crop")
  /\ ~Failed("fallback")
  /\ ex.result.imageBase64 = FullJpeg

\* C20: extractDesignContext never raises: whichever of the node metadata
\* fetch, the render fetches, the download, the metadata read, the crop and
\* the fallback fail, the call ends by returning a context object, empty
\* when the node fetch threw and with the node's fields otherwise.
Thm_C20 ==
  /\ ex.st # "raised"
  /\ DOMAIN ex.result = DOMAIN EmptyContext
  /\ (ex.st = "returned" /\ Failed("getNodeInfo")) => ex.result = EmptyContext
  /\ (ex.st = "returned" /\ ex.failed # <<>> /\ ~Failed("getNodeInfo")) =>
       /\ ex.result.nodeId = ex.meta.node_id
       /\ ex.result.nodeName = ex.node.name
       /\ ex.result.imageBase64 \in {Undefined, CroppedJpeg, FullJpeg}

\* A call returned after the first render fetch, the crop and the fallback
\* had all thrown.
Wit_C20 ==
  /\ ex.st = "returned"
  /\ ex.failed = <<"getNodeImage", "crop", "fallback">>
  /\ ex.result.nodeId = NodeId
  /\ ex.result.imageBase64 = Undefined

\* The larger of the width and the height of the node of the call.
MaxDim == IF ex.node.width >= ex.node.height THEN ex.node.width ELSE ex.node.height

\* The first render fetch of the call has been made.
FirstRenderFetched == Len(ex.fetches) >= 2 /\ ex.fetches[2].fn = "getNodeImage"

\* C21: the first render fetch is requested at scale 0.5 for a node with
\* maxDim > 4000, at scale 1 for 2000 < maxDim <= 4000 and at scale 2
\* otherwise; for a node of type CANVAS or DOCUMENT it is requested at 0.5
\* whatever the dimensions.
Thm_C21 ==
  FirstRenderFetched =>
    IF ex.node.type \in {<<"C","A","N","V","A","S">>, <<"D","O","C","U","M","E","N","T">>}
    THEN ex.fetches[2].scale = ScaleHalf
    ELSE /\ MaxDim > 4000 => ex.fetches[2].scale = ScaleHalf
         /\ (2000 < MaxDim /\ MaxDim <= 4000) => ex.fetches[2].scale = ScaleOne
         /\ MaxDim <= 2000 => ex.fetches[2].scale = ScaleTwo

\* The render of a canvas of 1200 x 800, small enough for scale 2, was
\* asked for at scale 0.5.
Wit_C21 ==
  /\ FirstRenderFetched
  /\ ex.node.type = <<"C","A","N","V","A","S">>
  /\ MaxDim = 1200
  /\ ex.fetches[2].scale = ScaleHalf

\* The render fetches of the call, as positions in its fetches.
RenderFetches == { k \in 1..Len(ex.fetches) : ex.fetches[k].fn = "getNodeImage" }

\* How many render fetches of the call have thrown.
RenderFailures == Cardinality({ k \in 1..Len(ex.failed) : ex.failed[k] = "getNodeImage" })

\* C22: a render fetch that fails at the selected scale is tried again
\* exactly once, at scale 0.5; when that fails too no further render fetch
\* is made, and the context returned has the node's id, name, type and
\* properties and neither imageUrl nor imageBase64.
Thm_C22 ==
  /\ Cardinality(RenderFetches) <= 2
  /\ RenderFailures >= 1 =>
       /\ RenderFetches = {2, 3}
       /\ ex.fetches[3].scale = ScaleHalf
       /\ ex.fetches[2].scale = SelectedScale(ex.node)
  /\ (RenderFailures = 0 /\ ex.st # "imageRetry") => Cardinality(RenderFetches) <= 1
  /\ RenderFailures = 2 =>
       /\ ex.st = "returned"
       /\ ex.failed = <<"getNodeImage", "getNodeImage">>
       /\ ex.result = [ nodeId |-> ex.meta.node_id, nodeName |-> ex.node.name,
                        nodeType |-> ex.node.type,
                        nodeProperties |-> [width |-> ex.node.width, height |-> ex.node.height],
                        imageUrl |-> Undefined, imageBase64 |-> Undefined ]

\* The render of a frame asked for at scale 2 failed, and so did the one
\* retry at scale 0.5; the context came back without an image.
Wit_C22 ==
  /\ ex.st = "returned"
  /\ RenderFailures = 2
  /\ ex.fetches[2].scale = ScaleTwo
  /\ ex.fetches[3].scale = ScaleHalf
  /\ ex.result.nodeId = NodeId
  /\ ex.result.imageUrl = Undefined

\* The comments invocation i has got through: all of its agentMentions
\* when it is done, else those before the one in hand.
RaceProcessed(i) ==
  IF inv[i].pc = "done" THEN Len(inv[i].agentMentions)
  ELSE IF inv[i].pc = "loop" THEN inv[i].idx - 1
  ELSE 0

\* C23: nothing guards overlapping invocations against each other: each
\* posts to every comment that was unanswered in the comments it fetched,
\* whatever the other has posted since, so when two invocations fetch
\* before either posts both reply to the same comment.
Thm_C23 ==
  \A i \in 1..MaxOverlap :
    /\ inv[i].pc # "fetch" => inv[i].agentMentions = filterMentions(inv[i].comments)
    /\ Len(inv[i].posts) = RaceProcessed(i)
    /\ \A k \in 1..Len(inv[i].posts) : inv[i].posts[k] = inv[i].agentMentions[k].id

\* Two invocations fetched the same comments before either posted; both are
\* done and one comment has two replies of the bot.
Wit_C23 ==
  /\ \A i \in 1..MaxOverlap : inv[i].pc = "done"
  /\ inv[1].comments = inv[2].comments
  /\ \E c \in 1..Len(thread) : Cardinality(BotRepliesTo(c)) = 2

\* The invocation is over and its comment fetch did not fail for good: the
\* fetch was attempted, so the preconditions held, and it returned a body.
FetchSucceeded ==
  /\ pc = "done"
  /\ \E c \in calls : c.fn = "getFileComments"
  /\ response # FetchExhaustedResponse

\* C24 as stated: once the preconditions hold and the comment fetch has
\* succeeded, the response is a run summary and never an error response,
\* whatever body was fetched and whatever failed per comment.
Orig_C24 ==
  FetchSucceeded =>
    /\ response.status = 200
    /\ response.mentionsFound = Len(agentMentions)
    /\ response.repliesSent = Len(replies)
    /\ response.skipped = Len(skipped)

\* The failed attempts of the call of withRetry in hand.
FailedAttempts == Cardinality({ k \in 1..Len(rt.log) : ~rt.log[k].ok })

\* C25: withRetry calls fn at most maxAttempts times and never again after
\* an attempt has succeeded; it waits only between a failed attempt and the
\* attempt that follows it, so that with k failed attempts the outcome is
\* reached after min(k, maxAttempts - 1) delays (maxAttempts at least 1).
Thm_C25 ==
  /\ Len(rt.log) <= rt.retries
  /\ \A k \in 1..(Len(rt.log) - 1) : ~rt.log[k].ok
  /\ rt.st = "returned" => rt.log[Len(rt.log)].ok
  /\ rt.st = "calling" => /\ FailedAttempts = Len(rt.log)
                          /\ rt.slept = Len(rt.log)
                          /\ Len(rt.log) < rt.retries
  /\ rt.st = "sleeping" => /\ ~rt.log[Len(rt.log)].ok
                           /\ Len(rt.log) < rt.retries
                           /\ rt.slept = Len(rt.log) - 1
  /\ (rt.st \in {"returned", "thrown"} /\ rt.retries >= 1) =>
       rt.slept = Min(FailedAttempts, rt.retries - 1)

\* Three attempts failed and withRetry threw after two delays, none after
\* the last.
Wit_C25 ==
  /\ rt.retries = 3
  /\ rt.st = "thrown"
  /\ FailedAttempts = 3
  /\ rt.slept = 2

\* The steps of the loop of route.ts:148-234.
LoopSteps == {"context", "analyze", "audit", "post"}

\* Where the batch stands at each step of comment idx: the comments before
\* it have their audit write and their reply post behind them, in the order
\* of agentMentions, and comment idx has exactly the steps before the one in
\* hand.
C26Order ==
  /\ \A k \in 1..Len(audits) : audits[k].record.comment_id = agentMentions[k].id
  /\ \A k \in 1..Len(posts) : posts[k].comment_id = agentMentions[k].id
  /\ Len(replies) + Len(skipped) = Len(posts)
  /\ pc \in LoopSteps =>
       /\ idx \in 1..Len(agentMentions)
       /\ Len(posts) = idx - 1
       /\ Len(audits) = IF pc = "post" THEN idx ELSE idx - 1
       /\ rt.st # "idle" <=> pc = "analyze"
       /\ pc = "analyze" => rt.fn = "analyzeDesign"
       /\ pc \in {"analyze", "audit", "post"} =>
            (designContext.nodeId # Undefined =>
               ContextCalls(designContext, ReadToken) \subseteq calls)
       /\ pc \in {"audit", "post"} => replyMessage # Undefined

\* The step after each step of the loop.
C26Step ==
  /\ C26Order
  /\ pc = "context" => (pc' = "analyze" /\ idx' = idx)
  /\ pc = "analyze" =>
       \/ pc' = "analyze" /\ idx' = idx /\ rt.st \in {"calling", "sleeping"}
       \/ pc' = "audit" /\ idx' = idx /\ rt.st \in {"returned", "thrown"}
  /\ pc = "audit" =>
       /\ pc' = "post" /\ idx' = idx
       /\ Len(audits') = Len(audits) + 1
       /\ audits'[Len(audits')].record.llm_response = replyMessage
  /\ pc = "post" =>
       /\ Len(posts') = Len(posts) + 1
       /\ posts'[Len(posts')].message = replyMessage
       /\ \/ pc' = "context" /\ idx' = idx + 1 /\ idx < Len(agentMentions)
          \/ pc' = "done" /\ idx = Len(agentMentions)
  /\ (pc \notin LoopSteps /\ pc' \in LoopSteps) => (pc' = "context" /\ idx' = 1)

\* C26: the comments are processed strictly one after the other: for each
\* the context is extracted, then the generative call is made with its
\* retries, then the audit record is written, then the reply is posted, and
\* no step of a later comment begins before the post of the comment before
\* it has succeeded or failed.
Thm_C26 == [][C26Step]_vars

\* The second of two comments is at its post: both audit records are
\* written, the first reply was posted or failed, the second is not yet.
Wit_C26 ==
  /\ pc = "post"
  /\ idx = 2
  /\ Len(audits) = 2
  /\ Len(posts) = 1
  /\ posts[1].comment_id = agentMentions[1].id

\* The scale of the render fetch that gave the image: the last one made.
FetchedScale == ex.fetches[Len(ex.fetches)].scale

\* The crop geometry of the call has been computed.
GeometryComputed == ex.pre # NoCrop

\* C27: the scale applied to node_offset and to the region dimensions in
\* the crop geometry is the scale of the render fetch that succeeded: the
\* scale selected at first when the first fetch succeeded, 0.5 when the
\* image came from the retry.
Thm_C27 ==
  GeometryComputed =>
    /\ ex.fetches[Len(ex.fetches)].fn = "getNodeImage"
    /\ FetchedScale = IF RenderFailures = 0 THEN SelectedScale(ex.node) ELSE ScaleHalf
    /\ ex.pre = PreClamp(ex.meta, FetchedScale)
    /\ IsRegion(ex.meta) => ex.region = RegionRect(ex.meta, FetchedScale)

\* The render of a node selected for scale 2 failed and came from the retry
\* at 0.5; the crop geometry is that of scale 0.5, which differs from the
\* one scale 2 gives.
Wit_C27 ==
  /\ GeometryComputed
  /\ RenderFailures = 1
  /\ SelectedScale(ex.node) = ScaleTwo
  /\ FetchedScale = ScaleHalf
  /\ ex.pre = PreClamp(ex.meta, ScaleHalf)
  /\ ex.pre # PreClamp(ex.meta, ScaleTwo)

\* The scaled pin and the scaled size of the region comment of the call, in
\* quarters.
ScaledPinX == ex.meta.node_offset.x * ex.currentScale
ScaledPinY == ex.meta.node_offset.y * ex.currentScale
ScaledWidth == ex.meta.region_width * ex.currentScale
ScaledHeight == ex.meta.region_height * ex.currentScale

\* The corner the pin of the comment names; bottom-right when it names none.
NamedCorner ==
  IF ex.meta.comment_pin_corner = "" THEN "bottom-right" ELSE ex.meta.comment_pin_corner

\* C28: for a region comment with scaled pin (px,py) and scaled size (w,h)
\* the top-left of the region is (px-w, py-h) for bottom-right, (px, py-h)
\* for bottom-left, (px-w, py) for top-right and (px, py) for top-left, and
\* a comment without comment_pin_corner is treated as bottom-right: the pin
\* is the named corner of the resolved region.
Thm_C28 ==
  ex.region # NoCrop =>
    /\ ex.region.width = ScaledWidth
    /\ ex.region.height = ScaledHeight
    /\ NamedCorner = "bottom-right" =>
         /\ ex.region.left = ScaledPinX - ScaledWidth
         /\ ex.region.top = ScaledPinY - ScaledHeight
    /\ NamedCorner = "bottom-left" =>
         /\ ex.region.left = ScaledPinX
         /\ ex.region.top = ScaledPinY - ScaledHeight
    /\ NamedCorner = "top-right" =>
         /\ ex.region.left = ScaledPinX - ScaledWidth
         /\ ex.region.top = ScaledPinY
    /\ NamedCorner = "top-left" =>
         /\ ex.region.left = ScaledPinX
         /\ ex.region.top = ScaledPinY
    /\ ScaledPinX = IF NamedCorner \in {"bottom-right", "top-right"}
                    THEN ex.region.left + ex.region.width ELSE ex.region.left
    /\ ScaledPinY = IF NamedCorner \in {"bottom-right", "bottom-left"}
                    THEN ex.region.top + ex.region.height ELSE ex.region.top

\* The region of a comment without comment_pin_corner, pinned at (1000,800)
\* with 200 x 100 and rendered at scale 2: its top-left is (1600,1400), the
\* pin its bottom-right corner.
Wit_C28 ==
  /\ ex.region # NoCrop
  /\ ex.meta.comment_pin_corner = ""
  /\ ex.meta.node_offset = [x |-> 1000, y |-> 800]
  /\ ex.meta.region_width = 200
  /\ ex.meta.region_height = 100
  /\ ex.currentScale = ScaleTwo
  /\ ex.region.left = 1600 * Unit
  /\ ex.region.top = 1400 * Unit

\* The larger of the scaled width and height of the region is at least
\* MIN_VIEWPORT_SIZE.
LargeRegion ==
  /\ ex.region # NoCrop
  /\ Max(ex.region.width, ex.region.height) >= MIN_VIEWPORT_SIZE * Unit

\* C29: when the larger of the scaled width and height of the region is at
\* least 800, exactly 800 included, the crop before the clamp is the region
\* itself rounded to whole pixels, neither expanded nor padded, however
\* small the other dimension is.
Thm_C29 ==
  LargeRegion =>
    ex.pre = [ x |-> Round(ex.region.left), y |-> Round(ex.region.top),
               width |-> Round(ex.region.width), height |-> Round(ex.region.height) ]

\* A region of 400 x 100 rendered at scale 2 is exactly 800 wide and 200
\* high: the crop before the clamp is 800 x 200.
Wit_C29 ==
  /\ LargeRegion
  /\ ex.region.width = MIN_VIEWPORT_SIZE * Unit
  /\ ex.region.height = 200 * Unit
  /\ ex.pre.width = 800
  /\ ex.pre.height = 200
  /\ ex.pre.x = Round(ex.region.left)

\* The call was made for a comment without client_meta.node_id.
WithoutNodeId == ex.st # "idle" /\ ~Truthy(ex.meta.node_id)

\* The call has returned after a node lookup that gave no node.
NodeNotFound ==
  /\ ex.st = "returned"
  /\ Truthy(ex.meta.node_id)
  /\ ex.node = NoNode
  /\ ~Failed("getNodeInfo")

\* C30: for a comment without client_meta.node_id the Context Extractor
\* returns an empty context and fetches neither the node nor a render; when
\* the node lookup gives no node it returns a context with nodeId alone and
\* fetches no render.
Thm_C30 ==
  /\ WithoutNodeId =>
       /\ ex.st = "returned"
       /\ ex.result = EmptyContext
       /\ ex.fetches = <<>>
  /\ NodeNotFound =>
       /\ ex.result = [EmptyContext EXCEPT !.nodeId = ex.meta.node_id]
       /\ ex.fetches = << Fetch("getNodeInfo", ex.accessToken, 0) >>
  /\ RenderFetches # {} => (Truthy(ex.meta.node_id) /\ ex.node # NoNode)

\* The lookup of node '1:2' gave no node: the context returned has that id
\* and nothing else, and the lookup is the only call made.
Wit_C30 ==
  /\ NodeNotFound
  /\ ex.result.nodeId = NodeId
  /\ ex.result.nodeName = Undefined
  /\ ex.result.imageUrl = Undefined
  /\ Len(ex.fetches) = 1

\* The invocation has ended with the run summary.
SummaryReturned == pc = "done" /\ response.status = 200

\* How often the comment with an id is in replies, and in the skip list.
TimesReplied(id) ==
  Cardinality({ k \in 1..Len(replies) : replies[k].originalCommentId = id })

TimesSkipped(id) ==
  Cardinality({ k \in 1..Len(skipped) : skipped[k].commentId = id })

\* C31: at the end of every invocation that returns a summary each
\* actionable comment is in exactly one of replies and the skip list, so
\* repliesSent + skipped = mentionsFound, and mentionsFound <= totalComments.
Thm_C31 ==
  SummaryReturned =>
    /\ \A k \in 1..Len(agentMentions) :
         TimesReplied(agentMentions[k].id) + TimesSkipped(agentMentions[k].id) = 1
    /\ RepliedIds \cup SkippedIds = { agentMentions[k].id : k \in 1..Len(agentMentions) }
    /\ response.repliesSent = Len(replies)
    /\ response.skipped = Len(skipped)
    /\ response.mentionsFound = Len(agentMentions)
    /\ response.totalComments = Len(commentsData.comments)
    /\ response.repliesSent + response.skipped = response.mentionsFound
    /\ response.mentionsFound <= response.totalComments

\* A summary over two comments, both actionable: one was replied to and
\* one skipped.
Wit_C31 ==
  /\ SummaryReturned
  /\ response.totalComments = 2
  /\ response.mentionsFound = 2
  /\ response.repliesSent = 1
  /\ response.skipped = 1

\* The comment in hand is one of the fetched comments and passes the four
\* rules there.
InHandActionable ==
  /\ idx \in 1..Len(agentMentions)
  /\ \E k \in 1..Len(commentsOrEmpty(commentsData)) :
       /\ commentsOrEmpty(commentsData)[k] = agentMentions[idx]
       /\ Actionable(agentMentions[idx], commentsOrEmpty(commentsData))

\* The calls of a step other than the comment fetch: to the node and render
\* endpoints, and to the generative service.
PerCommentCalls(before, after) == { c \in after \ before : c.fn # "getFileComments" }

\* What a step may do outside the loop, and for whom it acts inside it.
C32Step ==
  /\ pc \in LoopSteps => InHandActionable
  /\ PerCommentCalls(calls, calls') # {} => pc \in LoopSteps
  /\ (rt'.fn = "analyzeDesign" /\ rt' # rt) => (pc \in LoopSteps /\ idx' = idx)
  /\ (audits' # audits /\ audits' # <<>>) =>
       /\ pc \in LoopSteps
       /\ audits' = Append(audits, audits'[Len(audits')])
       /\ audits'[Len(audits')].record.comment_id = agentMentions[idx].id
  /\ (posts' # posts /\ posts' # <<>>) =>
       /\ pc \in LoopSteps
       /\ posts' = Append(posts, posts'[Len(posts')])
       /\ posts'[Len(posts')].comment_id = agentMentions[idx].id
  /\ \A k \in 1..Len(commentsOrEmpty(commentsData)) :
       ~Actionable(commentsOrEmpty(commentsData)[k], commentsOrEmpty(commentsData)) =>
         /\ \A p \in 1..Len(posts) : posts[p].comment_id # commentsOrEmpty(commentsData)[k].id
         /\ \A a \in 1..Len(audits) :
              audits[a].record.comment_id # commentsOrEmpty(commentsData)[k].id

\* C32: only actionable comments cause side effects: every reply post, audit
\* write, generative call and node or render fetch of an invocation is made
\* for a comment that, in the comments the invocation fetched, is
\* unresolved, mentions the agent, is not the bot's and has no reply of the
\* bot; a comment failing a rule causes no call.
Thm_C32 == [][C32Step]_vars

\* An invocation fetched a comment to act on and a comment of a user
\* without a mention; it made its node, render and generative calls, one
\* audit write and one post, all for the first.
Wit_C32 ==
  /\ pc = "done"
  /\ Len(commentsOrEmpty(commentsData)) = 2
  /\ \E k \in 1..2 :
       /\ commentsOrEmpty(commentsData)[k].message = MsgPlain
       /\ commentsOrEmpty(commentsData)[k].user # botFigmaUserId
       /\ ~Truthy(commentsOrEmpty(commentsData)[k].resolved_at)
  /\ Len(agentMentions) = 1
  /\ Len(audits) = 1
  /\ Len(posts) = 1
  /\ \A f \in {"getNodeInfo", "getNodeImage", "analyzeDesign"} : \E c \in calls : c.fn = f

\* The apologies an invocation can post.
Apologies ==
  { ApologyFor(m) : m \in LLMErrorMessages \cup { getLLMProviderError(c) : c \in LLMConfigs } }

\* The comments that have, among the fetched comments, an apology posted by
\* the bot as a reply.
ApologisedTo ==
  { commentsOrEmpty(commentsData)[k].parent_id :
      k \in { j \in 1..Len(commentsOrEmpty(commentsData)) :
                /\ commentsOrEmpty(commentsData)[j].user = botFigmaUserId
                /\ commentsOrEmpty(commentsData)[j].message \in Apologies } }

\* C33: an apology counts as an answer: once an invocation has posted the
\* apology for a comment whose analysis failed, every later invocation that
\* fetches that reply leaves the comment out, and its analysis is not
\* attempted again.
Thm_C33 ==
  \A c \in ApologisedTo :
    /\ \A j \in 1..Len(agentMentions) : agentMentions[j].id # c
    /\ \A a \in 1..Len(audits) : audits[a].record.comment_id # c
    /\ \A p \in 1..Len(posts) : posts[p].comment_id # c
    /\ pc \in {"context", "analyze", "audit", "post"} => agentMentions[idx].id # c

\* The first invocation posted the apology for the one actionable comment;
\* the second fetched it, found nothing to do and made no generative call.
Wit_C33 ==
  /\ run = 2
  /\ pc = "done"
  /\ response.status = 200
  /\ Len(created) = 1
  /\ created[1] \in ApologisedTo
  /\ thread[created[1]].message = MsgMention
  /\ ~Truthy(thread[created[1]].resolved_at)
  /\ agentMentions = <<>>
  /\ \A call \in calls : call.fn # "analyzeDesign"

\* The comment with an id is, in the fetched comments, unresolved and
\* without a reply of the bot.
StillOpen(c) ==
  \E k \in 1..Len(commentsOrEmpty(commentsData)) :
    /\ commentsOrEmpty(commentsData)[k].id = c
    /\ ~Truthy(commentsOrEmpty(commentsData)[k].resolved_at)
    /\ ~ \E j \in 1..Len(commentsOrEmpty(commentsData)) :
           /\ commentsOrEmpty(commentsData)[j].parent_id = c
           /\ commentsOrEmpty(commentsData)[j].user = botFigmaUserId

\* The invocation has its agentMentions: it is in its loop or has returned
\* the summary.
Scanned == pc \in {"context", "analyze", "audit", "post"} \/ (pc = "done" /\ response.status = 200)

\* C34: a comment skipped because its post failed stays actionable: the
\* next invocation that fetches it unresolved and without a reply of the bot
\* selects it again, attempts a new audit write and posts again, so that
\* the audit writes attempted for a comment can outnumber the replies
\* posted to it; when a post succeeds the comment has its reply.
Thm_C34 ==
  Scanned =>
    \A c \in prev.rejected :
      /\ c \in prev.audited
      /\ StillOpen(c) =>
           /\ \E j \in 1..Len(agentMentions) : agentMentions[j].id = c
           /\ pc = "done" =>
                /\ \E a \in 1..Len(audits) : audits[a].record.comment_id = c
                /\ \E p \in 1..Len(posts) :
                     /\ posts[p].comment_id = c
                     /\ posts[p].outcome = "posted" =>
                          /\ c \in RepliedIds
                          /\ Cardinality(BotRepliesTo(c)) = 1

\* The post for a comment was refused in the first invocation, after its
\* audit write; the second invocation wrote a second audit record and its
\* post went through: two audit writes, one reply.
Wit_C34 ==
  /\ run = 2
  /\ pc = "done"
  /\ response.status = 200
  /\ \E c \in prev.rejected :
       /\ c \in prev.audited
       /\ StillOpen(c)
       /\ Cardinality(BotRepliesTo(c)) = 1
       /\ Len(audits) = 1
       /\ audits[1].record.comment_id = c
       /\ Len(posts) = 1
       /\ posts[1].comment_id = c
       /\ posts[1].outcome = "posted"
       /\ Count(created, c) = 1

\* C35: in every context extractDesignContext returns, imageBase64 is set
\* only if imageUrl is set, a render fetch having given an image locator; a
\* context with imageBase64 and without imageUrl is not reachable.
Thm_C35 ==
  ex.st = "returned" =>
    (Truthy(ex.result.imageBase64) =>
       /\ Truthy(ex.result.imageUrl)
       /\ ex.result.imageUrl = ImageUrl
       /\ Cardinality(RenderFetches) = RenderFailures + 1)

\* The render came from the retry, the crop failed and the fallback encoded
\* the whole image: the context has both imageUrl and imageBase64.
Wit_C35 ==
  /\ ex.st = "returned"
  /\ RenderFailures = 1
  /\ Failed("crop")
  /\ ex.result.imageBase64 = FullJpeg
  /\ ex.result.imageUrl = ImageUrl

\* The part of the crop before the clamp that lies inside the image, as its
\* left, right, top and bottom edges.
InsideLeft == Max(0, ex.pre.x)
InsideRight == Min(ex.pre.x + ex.pre.width, ex.metadata.width)
InsideTop == Max(0, ex.pre.y)
InsideBottom == Min(ex.pre.y + ex.pre.height, ex.metadata.height)

\* C36: the clamp cuts off nothing of what was asked for inside the image:
\* every valid clamped crop contains the intersection of the crop before
\* the clamp with the image, and is neither wider nor higher than the crop
\* before the clamp.
Thm_C36 ==
  (ex.crop # NoCrop /\ ValidCrop(ex.crop)) =>
    /\ ex.crop.width <= ex.pre.width
    /\ ex.crop.height <= ex.pre.height
    /\ (InsideLeft < InsideRight /\ InsideTop < InsideBottom) =>
         /\ ex.crop.x <= InsideLeft
         /\ InsideRight <= ex.crop.x + ex.crop.width
         /\ ex.crop.y <= InsideTop
         /\ InsideBottom <= ex.crop.y + ex.crop.height

\* A window that began left of the image and reached below it was clamped:
\* the crop starts at the left edge, ends at the lower edge and holds all
\* of the window that is inside the image.
Wit_C36 ==
  /\ ex.st = "crop"
  /\ ex.pre.x < 0
  /\ ex.pre.x + ex.pre.width > 0
  /\ ex.pre.x + ex.pre.width < ex.metadata.width
  /\ ex.pre.y >= 0
  /\ ex.pre.y + ex.pre.height > ex.metadata.height
  /\ ex.crop.x = 0
  /\ ex.crop.y = ex.pre.y
  /\ ex.crop.y + ex.crop.height = ex.metadata.height

\* An invocation is under way.
UnderWay == pc \notin {"idle", "done"}

\* The calls of the invocation, by kind, against their bounds.
C37Bounds ==
  /\ Len(rt.log) <= 3
  /\ pc = "fetch" => (rt.fn = "getFileComments" /\ rt.retries = 3)
  /\ pc = "analyze" => (rt.fn = "analyzeDesign" /\ rt.retries = 3)
  /\ rt.st # "idle" => pc \in {"fetch", "analyze"}
  /\ Len(audits) <= Len(agentMentions)
  /\ Len(posts) <= Len(agentMentions)
  /\ \A j \in 1..Len(audits), k \in 1..Len(audits) :
       audits[j].record.comment_id = audits[k].record.comment_id => j = k
  /\ \A j \in 1..Len(posts), k \in 1..Len(posts) :
       posts[j].comment_id = posts[k].comment_id => j = k
  /\ UnderWay => response = NoResponse
  /\ pc = "done" => response # NoResponse

\* The response is given once: by the step that ends the invocation.
C37Step ==
  response' # response =>
    \/ pc # "done" /\ pc' = "done" /\ response = NoResponse
    \/ pc = "done" /\ run' = run + 1

Uuids == { UuidOf(f) : f \in FigmaIds }

\* C38: a poll for a state answers complete with a session only after the
\* callback has recorded a user id for that state, and the subject of the
\* session is that user id; before that every poll answers pending; and
\* after a session whose delete removed the auth code, the next session for
\* the state is issued only after a new callback has recorded a user id.
Thm_C38 ==
  \A s \in AuthStates :
    /\ auth.polled[s] \in {"complete", "error"} => auth.recorded[s]
    /\ ~auth.recorded[s] => auth.issued[s] = <<>>
    /\ \A k \in 1..Len(auth.issued[s]) :
         /\ auth.issued[s][k].sub \in Uuids
         /\ (k = 1 \/ auth.issued[s][k - 1].deleted) => auth.issued[s][k].renewed

\* One session was issued for a state, its delete removed the auth code,
\* and the poll that followed answered pending.
Wit_C38 ==
  \E s \in AuthStates :
    /\ Len(auth.issued[s]) = 1
    /\ auth.issued[s][1].deleted
    /\ auth.codes[s] = NoRow
    /\ auth.polled[s] = "pending"

\* C38 as stated: a poll for a state answers complete with a token only
\* after the callback has recorded a user id for that state, every poll
\* before that answers pending, and over polls that follow one another a
\* token is issued at most once per state, the auth code being deleted on
\* completion.
Orig_C38 ==
  \A s \in AuthStates :
    /\ auth.polled[s] = "complete" => auth.recorded[s]
    /\ ~auth.recorded[s] => (auth.polled[s] \in {"none", "pending"} /\ auth.issued[s] = <<>>)
    /\ Len(auth.issued[s]) <= 1

\* The users whose callback has stored a row with an access token and for
\* whom the poll has issued a session.
SignedIn == { f \in auth.users : \E s \in AuthStates :
                \E k \in 1..Len(auth.issued[s]) : auth.issued[s][k].sub = UuidOf(f) }

\* C39 as stated: the subject of the session the poll issues for a user who
\* completed the callback is the key under which the analyze endpoint looks
\* up that user, so that such a user, with a stored access token, always
\* passes the user lookup.
Orig_C39 ==
  \A f \in SignedIn : \A l \in auth.lookups : l.sub = UuidOf(f) => l.found

====
